---- MODULE Spec2Model ----
(***************************************************************************)
(* A model of the ServiceNow code-snippet scrapers (chatWebScraper).       *)
(*                                                                         *)
(* Text is modelled character by character: a Python str is a sequence of  *)
(* one-character strings, so that trimming, case folding, substring tests, *)
(* sorting and the regular expressions of the source are computed, not     *)
(* assumed.  The regular expressions are interpreted by a small            *)
(* backtracking matcher that follows the priority order of Python's re.    *)
(***************************************************************************)
EXTENDS Integers, Sequences, FiniteSets, TLC

VARIABLES
    tree,      \* the enumeration returned by list_tree_recursive: a sequence of blob paths
    raw,       \* the repository snapshot: path -> text served by fetch_raw
    pc,        \* position of the running scraper
    grouped,   \* the grouping built from the tree: unit key -> slots
    todo,      \* unit keys still to process, in processing order
    rows,      \* records appended so far
    failed,    \* paths whose fetch raised after the retry budget
    arg,       \* input of the pure function under check
    ret        \* its results

vars == <<tree, raw, pc, grouped, todo, rows, failed, arg, ret>>

-----------------------------------------------------------------------------
(* Python str primitives *)

Chars(s) == [i \in 1..Len(s) |-> SubSeq(s, i, i)]

UpperChars == Chars("ABCDEFGHIJKLMNOPQRSTUVWXYZ")
LowerChars == Chars("abcdefghijklmnopqrstuvwxyz")
DigitChars == Chars("0123456789")
\* The grave accent cannot be written inside a TLA+ string: it is this one value.
Backtick == "<grave>"
Printable ==
    Chars(" !\"#$%&'()*+,-./0123456789:;<=>?@ABCDEFGHIJKLMNOPQRSTUVWXYZ[\\]^_")
    \o <<Backtick>> \o Chars("abcdefghijklmnopqrstuvwxyz{|}~")

Range(f) == {f[i] : i \in DOMAIN f}

Whitespace == {" ", "\t", "\n", "\r", "\f"}
WordChars == Range(UpperChars) \cup Range(LowerChars) \cup Range(DigitChars) \cup {"_"}
AlnumChars == Range(UpperChars) \cup Range(LowerChars) \cup Range(DigitChars)

\* ord(c): the code point, for the characters the model uses
Ord(c) ==
    IF c = "\t" THEN 9
    ELSE IF c = "\n" THEN 10
    ELSE IF c = "\f" THEN 12
    ELSE IF c = "\r" THEN 13
    ELSE 31 + (CHOOSE i \in DOMAIN Printable : Printable[i] = c)

LowerChar(c) ==
    IF c \in Range(UpperChars)
    THEN LowerChars[CHOOSE i \in DOMAIN UpperChars : UpperChars[i] = c]
    ELSE c

\* str.lower()
lower(s) == [i \in DOMAIN s |-> LowerChar(s[i])]

\* str.strip()
strip(s) ==
    LET keep == {i \in DOMAIN s : s[i] \notin Whitespace}
    IN  IF keep = {} THEN <<>>
        ELSE LET lo == CHOOSE i \in keep : \A j \in keep : i <= j
                 hi == CHOOSE i \in keep : \A j \in keep : j <= i
             IN  SubSeq(s, lo, hi)

\* needle in hay
Contains(hay, needle) ==
    \E i \in 1..(Len(hay) - Len(needle) + 1) : SubSeq(hay, i, i + Len(needle) - 1) = needle

\* str.startswith / str.endswith
StartsWith(s, p) == Len(p) <= Len(s) /\ SubSeq(s, 1, Len(p)) = p
EndsWith(s, p) == Len(p) <= Len(s) /\ SubSeq(s, Len(s) - Len(p) + 1, Len(s)) = p

\* a < b on str (code point order)
StrLess(a, b) ==
    \E k \in 1..(Len(a) + 1) :
        /\ k <= Len(b)
        /\ \A j \in 1..(k - 1) : a[j] = b[j]
        /\ (k = Len(a) + 1 \/ Ord(a[k]) < Ord(b[k]))

\* str.split(sep) for a one-character separator
RECURSIVE SplitFrom(_, _, _)
SplitFrom(s, sep, from) ==
    LET hits == {i \in from..Len(s) : s[i] = sep}
    IN  IF hits = {} THEN <<SubSeq(s, from, Len(s))>>
        ELSE LET i == CHOOSE h \in hits : \A g \in hits : h <= g
             IN  <<SubSeq(s, from, i - 1)>> \o SplitFrom(s, sep, i + 1)

split(s, sep) == SplitFrom(s, sep, 1)

\* str.splitlines(), for texts whose only line break is the newline character
splitlines(s) ==
    IF s = <<>> THEN <<>>
    ELSE LET parts == split(s, "\n")
         IN  IF parts[Len(parts)] = <<>> THEN SubSeq(parts, 1, Len(parts) - 1) ELSE parts

\* sep.join(parts)
RECURSIVE join(_, _)
join(sep, parts) ==
    IF parts = <<>> THEN <<>>
    ELSE IF Len(parts) = 1 THEN parts[1]
    ELSE parts[1] \o sep \o join(sep, Tail(parts))

\* os.path.basename
basename(path) == LET parts == split(path, "/") IN parts[Len(parts)]

\* os.path.splitext(path)[1]
splitext_ext(path) ==
    LET b == basename(path)
        dots == {i \in 2..Len(b) : b[i] = "." /\ \E j \in 1..(i - 1) : b[j] # "."}
    IN  IF dots = {} THEN <<>>
        ELSE SubSeq(b, CHOOSE i \in dots : \A j \in dots : j <= i, Len(b))

\* os.path.splitext(path)[0] of a bare file name
splitext_root(name) == SubSeq(name, 1, Len(name) - Len(splitext_ext(name)))

\* sorted(xs) for a sequence of str with a key function given as a sequence of keys:
\* a stable insertion sort, as Python's sort is stable
RECURSIVE InsertSorted(_, _, _, _)
InsertSorted(done, doneKeys, x, k) ==
    \* position after the last element whose key is <= k
    LET before == {i \in DOMAIN done : ~StrLess(k, doneKeys[i])}
        n == IF before = {} THEN 0 ELSE CHOOSE i \in before : \A j \in before : j <= i
    IN  <<SubSeq(done, 1, n) \o <<x>> \o SubSeq(done, n + 1, Len(done)),
          SubSeq(doneKeys, 1, n) \o <<k>> \o SubSeq(doneKeys, n + 1, Len(doneKeys))>>

RECURSIVE SortFrom(_, _, _, _)
SortFrom(xs, keys, i, acc) ==
    IF i > Len(xs) THEN acc[1]
    ELSE SortFrom(xs, keys, i + 1, InsertSorted(acc[1], acc[2], xs[i], keys[i]))

SortedByKey(xs, keys) == SortFrom(xs, keys, 1, <<<<>>, <<>>>>)

sorted(xs) == SortedByKey(xs, xs)

-----------------------------------------------------------------------------
(* Python re: a backtracking matcher.                                      *)
(* A pattern is a tree of the nodes below.  ReMatch returns every way the  *)
(* node can match at position i, in the order re tries them (greedy        *)
(* repetition longest first, alternatives left to right), so the head of   *)
(* the list is the match re reports.  A result is the position after the   *)
(* match and the groups, each <<start, end>> or <<0, 0>> when unset.        *)

L(s) == [op |-> "lit", s |-> Chars(s)]
LitSeq(cs) == [op |-> "lit", s |-> cs]
InSet(set) == [neg |-> FALSE, cs |-> set]
NotIn(set) == [neg |-> TRUE, cs |-> set]
Star(c) == [op |-> "rep", cls |-> c, min |-> 0, unb |-> TRUE, greedy |-> TRUE]
Plus(c) == [op |-> "rep", cls |-> c, min |-> 1, unb |-> TRUE, greedy |-> TRUE]
LazyStar(c) == [op |-> "rep", cls |-> c, min |-> 0, unb |-> TRUE, greedy |-> FALSE]
One(c) == [op |-> "rep", cls |-> c, min |-> 1, unb |-> FALSE, greedy |-> TRUE]
WB == [op |-> "wb"]
Sq(items) == [op |-> "seq", items |-> items]
Alt(alts) == [op |-> "alt", alts |-> alts]
Opt(r) == [op |-> "opt", r |-> r]
G(n, r) == [op |-> "grp", n |-> n, r |-> r]

NoGroups == <<<<0, 0>>, <<0, 0>>>>

InClass(c, cls) == (c \in cls.cs) # cls.neg

RunLen(t, i, cls) ==
    LET stop == {k \in i..Len(t) : ~InClass(t[k], cls)}
    IN  IF stop = {} THEN Len(t) - i + 1
        ELSE (CHOOSE k \in stop : \A j \in stop : k <= j) - i

IsWordAt(t, i) == i >= 1 /\ i <= Len(t) /\ t[i] \in WordChars

RECURSIVE ReMatch(_, _, _, _, _)
RECURSIVE ReSeq(_, _, _, _, _, _)
RECURSIVE ReFlat(_, _, _, _, _, _)
RECURSIVE ReAlt(_, _, _, _, _, _)

ReMatch(r, t, i, g, ci) ==
    CASE r.op = "lit" ->
            IF /\ i + Len(r.s) - 1 <= Len(t)
               /\ \A k \in 1..Len(r.s) :
                    IF ci THEN LowerChar(t[i + k - 1]) = LowerChar(r.s[k])
                    ELSE t[i + k - 1] = r.s[k]
            THEN <<[e |-> i + Len(r.s), g |-> g]>>
            ELSE <<>>
      [] r.op = "rep" ->
            LET avail == RunLen(t, i, r.cls)
                most == IF r.unb THEN avail ELSE IF avail < r.min THEN avail ELSE r.min
                n == most - r.min + 1
            IN  IF most < r.min THEN <<>>
                ELSE [k \in 1..n |->
                        [e |-> IF r.greedy THEN i + most - (k - 1) ELSE i + r.min + (k - 1),
                         g |-> g]]
      [] r.op = "wb" ->
            IF IsWordAt(t, i - 1) # IsWordAt(t, i) THEN <<[e |-> i, g |-> g]>> ELSE <<>>
      [] r.op = "seq" -> ReSeq(r.items, 1, t, i, g, ci)
      [] r.op = "alt" -> ReAlt(r.alts, 1, t, i, g, ci)
      [] r.op = "opt" -> ReMatch(r.r, t, i, g, ci) \o <<[e |-> i, g |-> g]>>
      [] r.op = "grp" ->
            LET inner == ReMatch(r.r, t, i, g, ci)
            IN  [k \in DOMAIN inner |->
                    [e |-> inner[k].e,
                     g |-> [inner[k].g EXCEPT ![r.n] = <<i, inner[k].e>>]]]

ReSeq(items, k, t, i, g, ci) ==
    IF k > Len(items) THEN <<[e |-> i, g |-> g]>>
    ELSE ReFlat(ReMatch(items[k], t, i, g, ci), 1, items, k + 1, t, ci)

ReFlat(results, j, items, k, t, ci) ==
    IF j > Len(results) THEN <<>>
    ELSE ReSeq(items, k, t, results[j].e, results[j].g, ci)
         \o ReFlat(results, j + 1, items, k, t, ci)

ReAlt(alts, k, t, i, g, ci) ==
    IF k > Len(alts) THEN <<>>
    ELSE ReMatch(alts[k], t, i, g, ci) \o ReAlt(alts, k + 1, t, i, g, ci)

NoMatch == [found |-> FALSE, s |-> 0, e |-> 0, g |-> NoGroups]

\* the match record of the first (highest priority) result, if there is one
FirstResult(results, start) ==
    IF results = <<>> THEN NoMatch
    ELSE [found |-> TRUE, s |-> start, e |-> results[1].e, g |-> results[1].g]

\* re.match(pattern, text): anchored at the start of the text
re_match(r, t, ci) == FirstResult(ReMatch(r, t, 1, NoGroups, ci), 1)

\* re.search(pattern, text) from position from: the leftmost match
SearchFrom(r, t, ci, from) ==
    LET MatchAt(i) == FirstResult(ReMatch(r, t, i, NoGroups, ci), i)
        Leftmost(starts) ==
            IF starts = {} THEN NoMatch
            ELSE MatchAt(CHOOSE a \in starts : \A b \in starts : a <= b)
    IN  Leftmost({i \in from..(Len(t) + 1) : MatchAt(i).found})

re_search(r, t, ci) == SearchFrom(r, t, ci, 1)

\* match.group(n) of a found match whose group n took part in it
group(m, t, n) == SubSeq(t, m.g[n][1], m.g[n][2] - 1)

\* re.findall(pattern, text) for a pattern with one group: the group of each
\* successive non-overlapping match
RECURSIVE FindAllFrom(_, _, _, _)
FindAllFrom(r, t, ci, from) ==
    IF from > Len(t) + 1 THEN <<>>
    ELSE LET AndRest(m) ==
                 IF ~m.found THEN <<>>
                 ELSE <<group(m, t, 1)>>
                      \o FindAllFrom(r, t, ci, IF m.e = m.s THEN m.e + 1 ELSE m.e)
         IN  AndRest(SearchFrom(r, t, ci, from))

re_findall(r, t, ci) == FindAllFrom(r, t, ci, 1)

\* the character classes of the patterns
WS == InSet(Whitespace)
NotNL == NotIn({"\n"})
AnyChar == NotIn({})
ColonDash == InSet({":", "-"})
Quote == InSet({"'", "\""})

-----------------------------------------------------------------------------
(* Boolean normalisation: scrape_all_scripts.normalize_bool and            *)
(* scrape_script_includes.as_bool                                          *)

TruthyTokens == {Chars("true"), Chars("yes"), Chars("y"), Chars("1"), Chars("enabled"), Chars("checked")}
FalsyTokens == {Chars("false"), Chars("no"), Chars("n"), Chars("0"), Chars("disabled"), Chars("unchecked")}

\* a plausible slip: the table is consulted without case folding
normalize_bool_case_sensitive(value) ==
    LET low == strip(value)
    IN  IF low \in TruthyTokens THEN Chars("true")
        ELSE IF low \in FalsyTokens THEN Chars("false")
        ELSE strip(value)

\* a plausible slip: the folded text is returned for an unknown value
normalize_bool_returns_low(value) ==
    LET low == lower(strip(value))
    IN  IF low \in TruthyTokens THEN Chars("true")
        ELSE IF low \in FalsyTokens THEN Chars("false")
        ELSE low

normalize_bool(value) ==
    LET low == lower(strip(value))
    IN  IF low \in TruthyTokens THEN Chars("true")
        ELSE IF low \in FalsyTokens THEN Chars("false")
        ELSE strip(value)

as_bool(val) ==
    IF val = <<>> THEN <<>>
    ELSE LET v == lower(strip(val))
         IN  IF v \in TruthyTokens THEN Chars("true")
             ELSE IF v \in FalsyTokens THEN Chars("false")
             ELSE <<>>

(* The inputs: a word in some casing, padded with white space on both sides *)

MaxPad == 2

OtherWords == {Chars("maybe"), Chars("not sure"), Chars("2"), Chars("tru"), Chars("yes!"), Chars("on"), <<>>}

UpperChar(c) ==
    IF c \in Range(LowerChars)
    THEN UpperChars[CHOOSE i \in DOMAIN LowerChars : LowerChars[i] = c]
    ELSE c

Casings == {"asis", "upper", "capital"}

Cased(w, how) ==
    CASE how = "asis" -> w
      [] how = "upper" -> [i \in DOMAIN w |-> UpperChar(w[i])]
      [] how = "capital" -> [i \in DOMAIN w |-> IF i = 1 THEN UpperChar(w[i]) ELSE w[i]]

PadChars == <<" ", "\t", "\n">>
Pad(n) == [i \in 1..n |-> PadChars[((i - 1) % Len(PadChars)) + 1]]

BoolInput(w, how, l, r) == Pad(l) \o Cased(w, how) \o Pad(r)

BoolInputs ==
    {BoolInput(w, how, l, r) :
        w \in TruthyTokens \cup FalsyTokens \cup OtherWords,
        how \in Casings, l \in 0..MaxPad, r \in 0..MaxPad}

Unset == [done |-> FALSE, v |-> <<>>]
Result(v) == [done |-> TRUE, v |-> v]

Idle ==
    /\ tree = <<>>
    /\ raw = <<>>
    /\ grouped = <<>>
    /\ todo = <<>>
    /\ rows = <<>>
    /\ failed = {}

InitBool ==
    /\ Idle
    /\ pc = "bool"
    /\ arg \in BoolInputs
    /\ ret = [normalize_bool |-> Unset, as_bool |-> Unset]

CallNormalizeBool ==
    /\ pc = "bool"
    /\ ~ret.normalize_bool.done
    /\ ret' = [ret EXCEPT !.normalize_bool = Result(normalize_bool(arg))]
    /\ UNCHANGED <<tree, raw, pc, grouped, todo, rows, failed, arg>>

CallAsBool ==
    /\ pc = "bool"
    /\ ~ret.as_bool.done
    /\ ret' = [ret EXCEPT !.as_bool = Result(as_bool(arg))]
    /\ UNCHANGED <<tree, raw, pc, grouped, todo, rows, failed, arg>>

NextBool == CallNormalizeBool \/ CallAsBool

SpecBool == InitBool /\ [][NextBool]_vars

\* C7: every padded, re-cased truthy token normalises to "true" and every
\* padded, re-cased falsy token to "false", in normalize_bool and in as_bool.
C7_TokensNormalise ==
    \A how \in Casings, l \in 0..MaxPad, r \in 0..MaxPad :
        /\ \A w \in TruthyTokens :
              arg = BoolInput(w, how, l, r) =>
                /\ ret.normalize_bool.done => ret.normalize_bool.v = Chars("true")
                /\ ret.as_bool.done => ret.as_bool.v = Chars("true")
        /\ \A w \in FalsyTokens :
              arg = BoolInput(w, how, l, r) =>
                /\ ret.normalize_bool.done => ret.normalize_bool.v = Chars("false")
                /\ ret.as_bool.done => ret.as_bool.v = Chars("false")

C7_Witness ==
    /\ arg = BoolInput(Chars("enabled"), "upper", 1, 2)
    /\ ret.normalize_bool = Result(Chars("true"))
    /\ ret.as_bool = Result(Chars("true"))

IsOtherInput ==
    \E w \in OtherWords, how \in Casings, l \in 0..MaxPad, r \in 0..MaxPad :
        arg = BoolInput(w, how, l, r)

\* the input with the padding removed and nothing else changed
Unpadded ==
    CHOOSE u \in {Cased(w, how) : w \in OtherWords, how \in Casings} :
        \E l \in 0..MaxPad, r \in 0..MaxPad : arg = Pad(l) \o u \o Pad(r)

-----------------------------------------------------------------------------
(* scrape_all_scripts: the metadata extractor *)

S0 == Star(WS)

\* \b<label>\s*[:\-]\s*(<capture>)
Labelled(label, capture) ==
    Sq(<<WB>> \o label \o <<S0, One(ColonDash), S0, G(1, capture)>>)

RestOfLine == Plus(NotNL)

RECURSIVE first_match(_, _)
first_match(text, patterns) ==
    IF patterns = <<>> THEN <<>>
    ELSE LET OrNext(m) == IF m.found THEN strip(group(m, text, 1))
                          ELSE first_match(text, Tail(patterns))
         IN  OrNext(re_search(Head(patterns), text, TRUE))

DescriptionPattern == Labelled(<<L("description")>>, RestOfLine)

DescriptionLabelPattern ==
    Sq(<<G(1, Alt(<<L("name"), L("table"), L("applies"), L("type"), L("event"), L("ui"),
                    L("scope"), L("field"), L("condition"), L("when"), L("action"),
                    L("onclick"), Sq(<<L("source"), S0, L("table")>>),
                    Sq(<<L("target"), S0, L("table")>>), L("coalesce"),
                    Sq(<<L("client"), S0, L("callable")>>)>>)),
         S0, One(ColonDash)>>)

RECURSIVE FirstPlainLine(_, _)
FirstPlainLine(lines, labels) ==
    IF lines = <<>> THEN <<>>
    ELSE LET stripped == strip(Head(lines))
         IN  IF stripped = <<>> \/ StartsWith(stripped, Chars("#"))
             THEN FirstPlainLine(Tail(lines), labels)
             ELSE IF re_match(labels, stripped, TRUE).found
             THEN FirstPlainLine(Tail(lines), labels)
             ELSE stripped

parse_description(md) ==
    LET OrPlainLine(desc) ==
            IF desc # <<>> THEN desc
            ELSE FirstPlainLine(splitlines(md), DescriptionLabelPattern)
    IN  OrPlainLine(first_match(md, <<DescriptionPattern>>))

EventTokens == <<Chars("onChange"), Chars("onLoad"), Chars("onSubmit"), Chars("onCellEdit"), Chars("onValueChange")>>

EventWord(token) == Sq(<<WB, LitSeq(token), WB>>)

TypeOrEventPattern ==
    Sq(<<WB, G(1, Alt(<<L("type"), L("event")>>)), S0, One(ColonDash), S0,
         G(2, Plus(InSet(Range(UpperChars) \cup Range(LowerChars) \cup {"_"})))>>)

\* match.group(n) if match else ""
GroupOrEmpty(m, t, n) == IF m.found THEN group(m, t, n) ELSE <<>>

\* the first token of the list that occurs in md as a whole word
RECURSIVE FirstEventToken(_, _)
FirstEventToken(tokens, md) ==
    IF tokens = <<>> THEN <<>>
    ELSE IF re_search(EventWord(Head(tokens)), md, TRUE).found THEN Head(tokens)
    ELSE FirstEventToken(Tail(tokens), md)

parse_event(md) ==
    LET OrTyped(token) ==
            IF token # <<>> THEN token
            ELSE GroupOrEmpty(re_search(TypeOrEventPattern, md, TRUE), md, 2)
    IN  OrTyped(FirstEventToken(EventTokens, md))

TableNameChars == Plus(InSet(AlnumChars \cup {"_", ".", " "}))

TABLE_PATTERNS ==
    <<Labelled(<<L("table")>>, TableNameChars),
      Labelled(<<L("applies"), S0, L("to")>>, TableNameChars),
      Labelled(<<L("on"), Plus(WS), L("table")>>, TableNameChars)>>

parse_table_from_readme(md) == first_match(md, TABLE_PATTERNS)

README_PATTERNS ==
    <<[key |-> "name", patterns |-> <<Labelled(<<L("name")>>, RestOfLine)>>],
      [key |-> "client_side_type", patterns |->
          <<Sq(<<WB, G(1, Alt(<<L("onChange"), L("onLoad"), L("onSubmit"), L("onCellEdit"),
                                L("onValueChange")>>)), WB>>)>>],
      [key |-> "applies_to", patterns |-> <<Labelled(<<L("applies"), S0, L("to")>>, RestOfLine)>>],
      [key |-> "condition", patterns |-> <<Labelled(<<L("condition")>>, RestOfLine)>>],
      [key |-> "when_to_run", patterns |->
          <<Labelled(<<L("when"), S0, Opt(Sq(<<L("to"), S0, L("run")>>))>>, RestOfLine),
            Labelled(<<L("when"), WB>>, RestOfLine)>>],
      [key |-> "action_name", patterns |-> <<Labelled(<<L("action"), S0, L("name")>>, RestOfLine)>>],
      [key |-> "onClick", patterns |->
          <<Labelled(<<L("on"), S0, L("click")>>, RestOfLine),
            Labelled(<<L("onclick")>>, RestOfLine)>>],
      [key |-> "coalesce", patterns |-> <<Labelled(<<L("coalesce")>>, RestOfLine)>>],
      [key |-> "source_table", patterns |-> <<Labelled(<<L("source"), S0, L("table")>>, RestOfLine)>>],
      [key |-> "target_table", patterns |-> <<Labelled(<<L("target"), S0, L("table")>>, RestOfLine)>>],
      [key |-> "client_callable", patterns |->
          <<Sq(<<WB,
                 G(1, Alt(<<Sq(<<L("client"), S0, L("callable")>>),
                            Sq(<<L("glide"), S0, L("ajax"), S0, L("enabled")>>)>>)),
                 S0, One(ColonDash), S0, G(2, RestOfLine)>>)>>],
      [key |-> "api_name", patterns |-> <<Labelled(<<L("api"), S0, L("name")>>, RestOfLine)>>],
      [key |-> "access", patterns |-> <<Labelled(<<L("accessible"), S0, L("from")>>, RestOfLine)>>],
      [key |-> "mobile_callable", patterns |-> <<Labelled(<<L("mobile"), S0, L("callable")>>, RestOfLine)>>],
      [key |-> "sandbox_callable", patterns |-> <<Labelled(<<L("sandbox"), S0, L("enabled")>>, RestOfLine)>>],
      [key |-> "ui_type", patterns |-> <<Labelled(<<L("ui"), S0, L("type")>>, RestOfLine)>>],
      [key |-> "sys_scope", patterns |->
          <<Labelled(<<L("sys"), S0, L("scope")>>, RestOfLine),
            Labelled(<<L("application")>>, RestOfLine)>>],
      [key |-> "catalog_item", patterns |->
          <<Labelled(<<L("cat"), Opt(L("alog")), S0, L("item")>>, RestOfLine)>>],
      [key |-> "data_table", patterns |-> <<Labelled(<<L("data"), S0, L("table")>>, RestOfLine)>>],
      [key |-> "field_list", patterns |-> <<Labelled(<<L("field"), Opt(L("s"))>>, RestOfLine)>>],
      [key |-> "link", patterns |->
          <<Labelled(<<L("link")>>,
                     Sq(<<L("http"), Opt(L("s")), L("://"), Plus(NotIn(Whitespace))>>))>>],
      [key |-> "run_as", patterns |-> <<Labelled(<<L("run"), S0, L("as")>>, RestOfLine)>>],
      [key |-> "run_start", patterns |->
          <<Labelled(<<L("run"), S0, L("start")>>, RestOfLine),
            Labelled(<<L("start")>>, RestOfLine)>>],
      [key |-> "run_period", patterns |-> <<Labelled(<<L("run"), S0, L("period")>>, RestOfLine)>>],
      [key |-> "run_dayofweek", patterns |->
          <<Labelled(<<L("day"), S0, L("of"), S0, L("week")>>, RestOfLine),
            Labelled(<<L("dayofweek")>>, RestOfLine)>>],
      [key |-> "run_dayofmonth", patterns |->
          <<Labelled(<<L("day"), S0, L("of"), S0, L("month")>>, RestOfLine),
            Labelled(<<L("dayofmonth")>>, RestOfLine)>>],
      [key |-> "run_time", patterns |-> <<Labelled(<<L("time")>>, RestOfLine)>>]>>

PatternsOf(key) ==
    LET In(table) == table[CHOOSE i \in DOMAIN table : table[i].key = key].patterns
    IN  In(README_PATTERNS)

BOOL_KEYS == {"client_callable", "mobile_callable", "sandbox_callable", "coalesce"}

\* the dict parse_readme_metadata builds from what each entry of the table
\* matched and from the three fallback parsers: a function on the keys it holds
MetadataOf(table, matched, event, table_name, desc) ==
    LET data1 == {table[i].key : i \in {j \in DOMAIN table : matched[j] # <<>>}}
        Found(key) == matched[CHOOSE i \in DOMAIN table : table[i].key = key]
        keys == data1
                \cup (IF "client_side_type" \notin data1 /\ event # <<>> THEN {"client_side_type"} ELSE {})
                \cup (IF table_name # <<>> THEN {"table"} ELSE {})
                \cup (IF desc # <<>> THEN {"description"} ELSE {})
    IN  [k \in keys |->
            IF k = "description" THEN desc
            ELSE IF k = "table" THEN table_name
            ELSE IF k \in data1
                 THEN IF k \in BOOL_KEYS THEN normalize_bool(Found(k)) ELSE Found(k)
            ELSE event]

FirstMatches(md, table) == [i \in DOMAIN table |-> first_match(md, table[i].patterns)]

parse_readme_metadata(md) ==
    IF md = <<>> THEN <<>>
    ELSE MetadataOf(README_PATTERNS, FirstMatches(md, README_PATTERNS),
                    parse_event(md), parse_table_from_readme(md), parse_description(md))

-----------------------------------------------------------------------------
(* scrape_all_scripts: the code scanners *)

GF_METHODS ==
    <<"getValue", "getControl", "setValue", "setDisplay", "setVisible", "setMandatory",
      "setReadOnly", "showFieldMsg", "clearValue", "hideAllSections", "addInfoMessage",
      "addErrorMessage">>

IdentChars == AlnumChars \cup {"_", "."}

GFormCall(method) ==
    Sq(<<WB, L("g_form."), L(method), L("("), S0, One(Quote), G(1, Plus(InSet(IdentChars))),
         One(Quote)>>)

RECURSIVE GFormTokens(_, _)
GFormTokens(js, k) ==
    IF k > Len(GF_METHODS) THEN <<>>
    ELSE re_findall(GFormCall(GF_METHODS[k]), js, FALSE) \o GFormTokens(js, k + 1)

Count(tokens, name) == Cardinality({i \in DOMAIN tokens : tokens[i] = name})

\* sorted(freq.items(), key=lambda item: (-item[1], item[0]))
RECURSIVE ByCountThenName(_, _)
ByCountThenName(names, tokens) ==
    IF names = {} THEN <<>>
    ELSE LET best == CHOOSE a \in names :
                        \A b \in names \ {a} :
                            \/ Count(tokens, a) > Count(tokens, b)
                            \/ Count(tokens, a) = Count(tokens, b) /\ StrLess(a, b)
         IN  <<best>> \o ByCountThenName(names \ {best}, tokens)

parse_fields_from_code(js) ==
    LET Ranked(tokens) == IF tokens = <<>> THEN <<>> ELSE ByCountThenName(Range(tokens), tokens)
    IN  Ranked(GFormTokens(js, 1))

QuotedIdent == <<One(Quote), G(1, Plus(InSet(IdentChars))), One(Quote)>>

TABLE_CODE_PATTERNS ==
    <<Sq(<<L("current"), S0, L("="), S0, L("new"), Plus(WS), L("GlideRecord(")>>
         \o QuotedIdent \o <<L(")")>>),
      Sq(<<WB, L("GlideRecord(")>> \o QuotedIdent \o <<L(")")>>),
      Sq(<<WB, L("tableName"), S0, L("="), S0>> \o QuotedIdent)>>

\* the loop of parse_table_from_code
RECURSIVE FirstTable(_, _)
FirstTable(js, patterns) ==
    IF patterns = <<>> THEN <<>>
    ELSE LET OrNext(m) == IF m.found THEN group(m, js, 1) ELSE FirstTable(js, Tail(patterns))
         IN  OrNext(re_search(Head(patterns), js, TRUE))

parse_table_from_code(js) == FirstTable(js, TABLE_CODE_PATTERNS)

Fence == <<Backtick, Backtick, Backtick>>

CodeBlockPattern ==
    Sq(<<LitSeq(Fence),
         Alt(<<L("javascript"), L("js"), L("json"), L("xml"), L("html"), L("css")>>),
         S0, L("\n"), G(1, LazyStar(AnyChar)), L("\n"), LitSeq(Fence)>>)

extract_code_blocks(md) ==
    LET Stripped(blocks) == [i \in DOMAIN blocks |-> strip(blocks[i])]
    IN  Stripped(re_findall(CodeBlockPattern, md, FALSE))

Identifier ==
    Sq(<<One(InSet(Range(UpperChars) \cup Range(LowerChars) \cup {"_"})),
         Star(InSet(WordChars))>>)

ControllerAsPattern ==
    Sq(<<L("controllerAs"), S0, L(":"), S0, One(Quote), G(1, Identifier), One(Quote)>>)

SelfAssignPattern ==
    Sq(<<WB, L("var"), Plus(WS), G(1, Identifier), S0, L("="), S0, L("this"), S0, L(";")>>)

extract_controller_as(client_js) ==
    LET Pick(m, n) == IF m.found THEN group(m, client_js, 1)
                      ELSE IF n.found THEN group(n, client_js, 1)
                      ELSE <<>>
    IN  Pick(re_search(ControllerAsPattern, client_js, FALSE),
             re_search(SelfAssignPattern, client_js, FALSE))

LinkHeadPattern ==
    Sq(<<WB, L("function"), Plus(WS), L("link"), S0, L("("), G(1, Star(NotIn({")"}))), L(")"),
         S0, L("{")>>)

\* the while loop of extract_link_function: the index of the brace that
\* closes depth 1, or 0 when the text ends first
RECURSIVE ScanBraces(_, _, _)
ScanBraces(js, idx, depth) ==
    IF idx > Len(js) THEN 0
    ELSE IF js[idx] = "{" THEN ScanBraces(js, idx + 1, depth + 1)
    ELSE IF js[idx] = "}"
         THEN IF depth - 1 = 0 THEN idx ELSE ScanBraces(js, idx + 1, depth - 1)
    ELSE ScanBraces(js, idx + 1, depth)

extract_link_function(client_js) ==
    LET Body(m, close) ==
            IF close = 0 THEN <<>>
            ELSE Chars("function link(") \o group(m, client_js, 1) \o Chars("){\n")
                 \o SubSeq(client_js, m.e, close - 1) \o Chars("\n}")
        From(m) == IF ~m.found THEN <<>> ELSE Body(m, ScanBraces(client_js, m.e, 1))
    IN  From(re_search(LinkHeadPattern, client_js, FALSE))

-----------------------------------------------------------------------------
(* scrape_all_scripts: the role classifier *)

INCLUDE_NAME_HINTS == <<"include", "processor", "server", "script_include", "ajax">>
CLIENT_NAME_HINTS == <<"client", "workspace", "portal">>

AnyHint(hints, name) == \E i \in DOMAIN hints : Contains(name, Chars(hints[i]))

\* re.sub(r"[^A-Za-z0-9]+", "", text)
OnlyAlnum(text) == SelectSeq(text, LAMBDA c : c \in AlnumChars)

readme_mentions(filename, lines, token) ==
    LET norm == OnlyAlnum(lower(token))
    IN  \E i \in DOMAIN lines :
            LET low == lower(lines[i])
            IN  Contains(low, lower(token)) /\ Contains(OnlyAlnum(low), norm)

ClientTriggers ==
    <<"function onload", "function onchange", "function onsubmit", "function oncelledit",
      "function onvaluechange">>

ServerIdioms == <<"class.create", "prototype =", "gs.", "gliderecord">>

infer_js_role_client_hint_first(filename, code, readme_lines) ==
    LET name == lower(filename)
        content == lower(code)
    IN  IF readme_mentions(filename, readme_lines, Chars("script include")) THEN "script_include"
        ELSE IF readme_mentions(filename, readme_lines, Chars("client script")) THEN "client"
        ELSE IF AnyHint(CLIENT_NAME_HINTS, name) THEN "client"
        ELSE IF AnyHint(INCLUDE_NAME_HINTS, name) /\ ~Contains(content, Chars("g_form"))
             THEN "script_include"
        ELSE IF AnyHint(ClientTriggers, content) THEN "client"
        ELSE IF Contains(content, Chars("g_form")) \/ Contains(content, Chars("g_scratchpad"))
             THEN "client"
        ELSE IF AnyHint(ServerIdioms, content) /\ ~Contains(content, Chars("g_form"))
             THEN "script_include"
        ELSE "unknown"

infer_js_role_unguarded_include_hint(filename, code, readme_lines) ==
    LET name == lower(filename)
        content == lower(code)
    IN  IF readme_mentions(filename, readme_lines, Chars("script include")) THEN "script_include"
        ELSE IF readme_mentions(filename, readme_lines, Chars("client script")) THEN "client"
        ELSE IF AnyHint(INCLUDE_NAME_HINTS, name) THEN "script_include"
        ELSE IF AnyHint(CLIENT_NAME_HINTS, name) THEN "client"
        ELSE IF AnyHint(ClientTriggers, content) THEN "client"
        ELSE IF Contains(content, Chars("g_form")) \/ Contains(content, Chars("g_scratchpad"))
             THEN "client"
        ELSE IF AnyHint(ServerIdioms, content) /\ ~Contains(content, Chars("g_form"))
             THEN "script_include"
        ELSE "unknown"

infer_js_role(filename, code, readme_lines) ==
    LET name == lower(filename)
        content == lower(code)
    IN  IF readme_mentions(filename, readme_lines, Chars("script include")) THEN "script_include"
        ELSE IF readme_mentions(filename, readme_lines, Chars("client script")) THEN "client"
        ELSE IF AnyHint(INCLUDE_NAME_HINTS, name) /\ ~Contains(content, Chars("g_form"))
             THEN "script_include"
        ELSE IF AnyHint(CLIENT_NAME_HINTS, name) THEN "client"
        ELSE IF AnyHint(ClientTriggers, content) THEN "client"
        ELSE IF Contains(content, Chars("g_form")) \/ Contains(content, Chars("g_scratchpad"))
             THEN "client"
        ELSE IF AnyHint(ServerIdioms, content) /\ ~Contains(content, Chars("g_form"))
             THEN "script_include"
        ELSE "unknown"

classify_js_role_returns_guess(snippet_path, rel_path, filename, code, readme_lines) ==
    LET lower_path == lower(snippet_path)
        lower_rel == lower(rel_path)
        lower_name == lower(filename)
        content == lower(code)
        guess == infer_js_role(filename, code, readme_lines)
        has(text, word) == Contains(text, Chars(word))
        g_form == has(content, "g_form")
    IN  IF has(lower_path, "script include") \/ has(lower_rel, "script include") THEN "script_include"
        ELSE IF has(lower_path, "ux client script include") THEN "script_include"
        ELSE IF has(lower_path, "client scripts") \/ has(lower_path, "ux client scripts")
             THEN (IF guess # "script_include" THEN "client" ELSE "script_include")
        ELSE IF has(lower_path, "catalog client script") /\ guess \in {"script_include", "client"}
             THEN guess
        ELSE IF has(lower_path, "service portal widgets")
             THEN (IF has(lower_name, "client") THEN "client"
                   ELSE IF has(lower_name, "server") THEN "portal_server"
                   ELSE IF has(lower_name, "link") THEN "client"
                   ELSE IF g_form THEN "client" ELSE "portal_server")
        ELSE IF has(lower_path, "service portal")
             THEN (IF has(lower_name, "client") THEN "client"
                   ELSE IF has(lower_name, "server") THEN "portal_server"
                   ELSE IF has(lower_name, "controller") THEN "client"
                   ELSE IF g_form THEN "client" ELSE "portal_server")
        ELSE IF has(lower_path, "ui actions")
             THEN (IF has(lower_name, "script include") \/ has(lower_rel, "scriptinclude")
                   THEN "script_include"
                   ELSE IF has(lower_name, "client") \/ has(lower_name, "workspace") THEN "client"
                   ELSE IF has(lower_name, "server") THEN "server"
                   ELSE IF g_form THEN "client"
                   ELSE "server")
        ELSE IF has(lower_path, "scheduled jobs") \/ has(lower_path, "background scripts")
             THEN "server"
        ELSE IF has(lower_path, "transform map scripts") THEN "server"
        ELSE IF has(lower_path, "core servicenow apis") THEN "server"
        ELSE IF has(lower_path, "integration") /\ has(lower_path, "mail scripts") THEN "server"
        ELSE guess

classify_js_role(snippet_path, rel_path, filename, code, readme_lines) ==
    LET lower_path == lower(snippet_path)
        lower_rel == lower(rel_path)
        lower_name == lower(filename)
        content == lower(code)
        guess == infer_js_role(filename, code, readme_lines)
        has(text, word) == Contains(text, Chars(word))
        g_form == has(content, "g_form")
    IN  IF has(lower_path, "script include") \/ has(lower_rel, "script include") THEN "script_include"
        ELSE IF has(lower_path, "ux client script include") THEN "script_include"
        ELSE IF has(lower_path, "client scripts") \/ has(lower_path, "ux client scripts")
             THEN (IF guess # "script_include" THEN "client" ELSE "script_include")
        ELSE IF has(lower_path, "catalog client script") /\ guess \in {"script_include", "client"}
             THEN guess
        ELSE IF has(lower_path, "service portal widgets")
             THEN (IF has(lower_name, "client") THEN "client"
                   ELSE IF has(lower_name, "server") THEN "portal_server"
                   ELSE IF has(lower_name, "link") THEN "client"
                   ELSE IF g_form THEN "client" ELSE "portal_server")
        ELSE IF has(lower_path, "service portal")
             THEN (IF has(lower_name, "client") THEN "client"
                   ELSE IF has(lower_name, "server") THEN "portal_server"
                   ELSE IF has(lower_name, "controller") THEN "client"
                   ELSE IF g_form THEN "client" ELSE "portal_server")
        ELSE IF has(lower_path, "ui actions")
             THEN (IF has(lower_name, "script include") \/ has(lower_rel, "scriptinclude")
                   THEN "script_include"
                   ELSE IF has(lower_name, "client") \/ has(lower_name, "workspace") THEN "client"
                   ELSE IF has(lower_name, "server") THEN "server"
                   ELSE IF g_form THEN "client"
                   ELSE "server")
        ELSE IF has(lower_path, "scheduled jobs") \/ has(lower_path, "background scripts")
             THEN "server"
        ELSE IF has(lower_path, "transform map scripts") THEN "server"
        ELSE IF has(lower_path, "core servicenow apis") THEN "server"
        ELSE IF has(lower_path, "integration") /\ has(lower_path, "mail scripts") THEN "server"
        ELSE IF guess = "client" THEN "client"
        ELSE IF guess = "script_include" THEN "script_include"
        ELSE "server"

-----------------------------------------------------------------------------
(* scrape_all_scripts: configuration *)

BASE_FOLDERS ==
    <<"Client-Side Components", "Core ServiceNow APIs", "Integration", "Modern Development",
      "Server-Side Components", "Specialized Areas">>

ASSET_FOLDER == "assets"
PAGES_FOLDER == "pages"

SCRIPT_TYPE_LOOKUP ==
    <<<<"Client-Side Components", "Client Scripts", "Client Script">>,
      <<"Client-Side Components", "Catalog Client Script", "Catalog Client Script">>,
      <<"Client-Side Components", "UI Actions", "UI Action">>,
      <<"Client-Side Components", "UI Macros", "UI Macro">>,
      <<"Client-Side Components", "UI Pages", "UI Page">>,
      <<"Client-Side Components", "UI Scripts", "UI Script">>,
      <<"Client-Side Components", "UX Client Script Include", "UX Script Include">>,
      <<"Client-Side Components", "UX Client Scripts", "UX Client Script">>,
      <<"Client-Side Components", "UX Data Broker Transform", "UX Data Broker Transform">>,
      <<"Core ServiceNow APIs", "GlideAggregate", "Core API">>,
      <<"Core ServiceNow APIs", "GlideAjax", "Core API">>,
      <<"Core ServiceNow APIs", "GlideDate", "Core API">>,
      <<"Core ServiceNow APIs", "GlideDateTime", "Core API">>,
      <<"Core ServiceNow APIs", "GlideElement", "Core API">>,
      <<"Core ServiceNow APIs", "GlideFilter", "Core API">>,
      <<"Core ServiceNow APIs", "GlideHTTPRequest", "Core API">>,
      <<"Core ServiceNow APIs", "GlideJsonPath", "Core API">>,
      <<"Core ServiceNow APIs", "GlideModal", "Core API">>,
      <<"Core ServiceNow APIs", "GlideQuery", "Core API">>,
      <<"Core ServiceNow APIs", "GlideRecord", "Core API">>,
      <<"Core ServiceNow APIs", "GlideSystem", "Core API">>,
      <<"Core ServiceNow APIs", "GlideTableDescriptor", "Core API">>,
      <<"Integration", "Mail Scripts", "Mail Script">>,
      <<"Modern Development", "Service Portal Widgets", "Service Portal Widget">>>>

\* SCRIPT_TYPE_LOOKUP.get((category, subcategory), subcategory)
ScriptTypeOf(category, subcategory) ==
    LET hits == {i \in DOMAIN SCRIPT_TYPE_LOOKUP :
                    /\ Chars(SCRIPT_TYPE_LOOKUP[i][1]) = category
                    /\ Chars(SCRIPT_TYPE_LOOKUP[i][2]) = subcategory}
    IN  IF hits = {} THEN subcategory
        ELSE Chars(SCRIPT_TYPE_LOOKUP[CHOOSE i \in hits : TRUE][3])

PRIMARY_FIELDS ==
    <<"name", "description", "script_type", "client_script", "script_include", "code", "code2",
      "client_side_type", "type_for_specialized_areas", "table", "data_table", "field_list",
      "html", "css", "option_schema", "link", "condition", "when_to_run", "repo_path",
      "action_name", "client_script_v2", "onClick", "coalesce", "source_table", "target_table",
      "client_callable">>

EXTRA_FIELDS ==
    <<"category", "subcategory", "description_markdown", "server_script", "api_name", "access",
      "mobile_callable", "sandbox_callable", "ui_type", "sys_scope", "catalog_item", "applies_to",
      "controller_as", "demo_data", "scss", "notes", "run_as", "run_start", "run_period",
      "run_dayofweek", "run_dayofmonth", "run_time">>

ALL_FIELDS == PRIMARY_FIELDS \o EXTRA_FIELDS

LIST_FIELDS ==
    {"client_script", "client_script_v2", "script_include", "code", "code2", "server_script",
     "html", "css", "scss", "option_schema", "link", "demo_data", "field_list", "data_table",
     "notes", "onClick"}

TEXT_EXTENSIONS ==
    {Chars(".css"), Chars(".scss"), Chars(".html"), Chars(".htm"), Chars(".js"), Chars(".json"),
     Chars(".md"), Chars(".txt"), Chars(".xml")}

-----------------------------------------------------------------------------
(* scrape_all_scripts: the row assembler.                                  *)
(* A row value is a Python str or a Python list of str; a row is the dict  *)
(* together with whether an exception has been raised while building it.   *)

Str(s) == [list |-> FALSE, v |-> s]
Lst(xs) == [list |-> TRUE, v |-> xs]
Row(d) == [st |-> "ok", d |-> d, err |-> "none"]
Raised(d, err) == [st |-> "raised", d |-> d, err |-> err]
EmptyDict == [st |-> "empty", d |-> <<>>, err |-> "none"]

\* what fetch_raw yields for a path whose request fails: requests raises
\* HTTPError from raise_for_status, and nothing on the way up catches it
HTTPError == <<"HTTPError">>

\* row[key] = value
SetItem(d, key, value) == [k \in DOMAIN d \cup {key} |-> IF k = key THEN value ELSE d[k]]

\* bool(row[key])
Truthy(d, key) == d[key].v # <<>>

blank_row_repo_path_is_category(name, script_type, category, subcategory, repo_path) ==
    LET blank == [f \in Range(ALL_FIELDS) |-> IF f \in LIST_FIELDS THEN Lst(<<>>) ELSE Str(<<>>)]
    IN  Row([blank EXCEPT !["name"] = Str(name),
                          !["script_type"] = Str(script_type),
                          !["repo_path"] = Str(category),
                          !["category"] = Str(category),
                          !["subcategory"] = Str(subcategory)])

blank_row(name, script_type, category, subcategory, repo_path) ==
    LET blank == [f \in Range(ALL_FIELDS) |-> IF f \in LIST_FIELDS THEN Lst(<<>>) ELSE Str(<<>>)]
    IN  Row([blank EXCEPT !["name"] = Str(name),
                          !["script_type"] = Str(script_type),
                          !["repo_path"] = Str(repo_path),
                          !["category"] = Str(category),
                          !["subcategory"] = Str(subcategory)])

BlankLine == Chars("\n\n")

\* append_value(row, field, value): list.append on a str raises AttributeError
append_value(row, field, value) ==
    IF row.st # "ok" THEN row
    ELSE IF value = <<>> \/ strip(value) = <<>> THEN row
    ELSE IF field \in LIST_FIELDS
         THEN IF field \in DOMAIN row.d /\ row.d[field].list
              THEN Row(SetItem(row.d, field, Lst(Append(row.d[field].v, strip(value)))))
              ELSE Raised(row.d, "AttributeError")
    ELSE IF field \in DOMAIN row.d /\ Truthy(row.d, field)
         THEN Row(SetItem(row.d, field, Str(row.d[field].v \o BlankLine \o strip(value))))
    ELSE Row(SetItem(row.d, field, Str(strip(value))))

assign_js_no_overflow(row, role, content) ==
    IF row.st # "ok" THEN row
    ELSE IF role = "client"
         THEN append_value(row, "client_script", content)
    ELSE IF role = "script_include" THEN append_value(row, "script_include", content)
    ELSE IF role = "portal_server" THEN append_value(row, "server_script", content)
    ELSE IF role = "server"
         THEN append_value(row, "code", content)
    ELSE append_value(row, "code", content)

assign_js(row, role, content) ==
    IF row.st # "ok" THEN row
    ELSE IF role = "client"
         THEN append_value(row, IF ~Truthy(row.d, "client_script") THEN "client_script"
                                ELSE "client_script_v2", content)
    ELSE IF role = "script_include" THEN append_value(row, "script_include", content)
    ELSE IF role = "portal_server" THEN append_value(row, "server_script", content)
    ELSE IF role = "server"
         THEN append_value(row, IF ~Truthy(row.d, "code") THEN "code" ELSE "code2", content)
    ELSE append_value(row, "code", content)

\* [v.strip() for v in values if v.strip()]
RECURSIVE Cleaned(_)
Cleaned(values) ==
    IF values = <<>> THEN <<>>
    ELSE (IF strip(Head(values)) # <<>> THEN <<strip(Head(values))>> ELSE <<>>)
         \o Cleaned(Tail(values))

\* the two normalising loops at the head of finalize_row
NormaliseFields(d) ==
    [k \in DOMAIN d \cup Range(ALL_FIELDS) |->
        IF k \notin DOMAIN d THEN Str(<<>>)
        ELSE IF k \in LIST_FIELDS
             THEN Str(join(BlankLine, Cleaned(IF d[k].list THEN d[k].v ELSE <<d[k].v>>)))
        ELSE IF k \notin Range(ALL_FIELDS) THEN d[k]
        ELSE IF d[k].list THEN Str(join(BlankLine, Cleaned(d[k].v)))
        ELSE Str(strip(d[k].v))]

\* str(value): the repr of a list, the text of a str
PyStr(value) ==
    IF value.list
    THEN Chars("[") \o join(Chars(", "), [i \in DOMAIN value.v |-> Chars("'") \o value.v[i] \o Chars("'")])
         \o Chars("]")
    ELSE value.v

\* a plausible slip: only the primary columns are exported
ExportRow_primary_only(d) ==
    [key \in Range(PRIMARY_FIELDS) |->
        IF key \in DOMAIN d /\ d[key].v # <<>> THEN Str(PyStr(d[key])) ELSE Str(<<>>)]

\* {key: str(row.get(key, "") or "") for key in ALL_FIELDS}
ExportRow(d) ==
    [key \in Range(ALL_FIELDS) |->
        IF key \in DOMAIN d /\ d[key].v # <<>> THEN Str(PyStr(d[key])) ELSE Str(<<>>)]

Take(xs, n) == SubSeq(xs, 1, IF Len(xs) < n THEN Len(xs) ELSE n)

\* a or b on str
Or(a, b) == IF a # <<>> THEN a ELSE b

\* if not row["description"] and readme_markdown: ...
FillDescription(d, readme_markdown) ==
    IF ~Truthy(d, "description") /\ readme_markdown # <<>>
    THEN SetItem(d, "description", Str(parse_description(readme_markdown)))
    ELSE d

SetIfFound(d, key, found) == IF found # <<>> THEN SetItem(d, key, Str(found)) ELSE d

\* if not row["client_side_type"]: ...
FillEvent(d, readme_markdown) ==
    IF Truthy(d, "client_side_type") THEN d
    ELSE SetIfFound(d, "client_side_type",
                    parse_event(Or(readme_markdown,
                                   Or(d["client_script"].v, d["client_script_v2"].v))))

\* if not row["table"]: ...
FillTable(d, readme_markdown) ==
    IF Truthy(d, "table") THEN d
    ELSE SetIfFound(d, "table",
                    Or(parse_table_from_readme(readme_markdown),
                       parse_table_from_code(Or(d["client_script"].v, d["code"].v))))

\* if not row["field_list"]: ...
FillFieldList(d) ==
    IF Truthy(d, "field_list") THEN d
    ELSE SetIfFound(d, "field_list",
                    join(Chars(", "), Take(parse_fields_from_code(d["client_script"].v), 3)))

\* if category == "Specialized Areas" and not row["type_for_specialized_areas"]: ...
FillSpecializedArea(d, script_type, category, subcategory) ==
    IF category = Chars("Specialized Areas") /\ ~Truthy(d, "type_for_specialized_areas")
    THEN [k \in DOMAIN d |->
            IF k = "type_for_specialized_areas" THEN Str(subcategory)
            ELSE IF k = "script_type" /\ script_type = subcategory
                 THEN Str(Chars("Specialized Area"))
            ELSE d[k]]
    ELSE d

IsWidget(d, category, subcategory) ==
    /\ category = Chars("Modern Development")
    /\ subcategory = Chars("Service Portal Widgets")
    /\ Truthy(d, "client_script")

\* if not row["controller_as"]: ...
FillControllerAs(d, category, subcategory) ==
    IF IsWidget(d, category, subcategory) /\ ~Truthy(d, "controller_as")
    THEN SetItem(d, "controller_as", Str(extract_controller_as(d["client_script"].v)))
    ELSE d

\* if not row["link"]: ... append_value(row, "link", link_func)
FillLink(d, category, subcategory) ==
    IF IsWidget(d, category, subcategory) /\ ~Truthy(d, "link")
    THEN append_value(Row(d), "link", extract_link_function(d["client_script"].v))
    ELSE Row(d)

ScriptIncludeTypes == {Chars("Script Include"), Chars("UX Script Include")}

\* if not row["client_callable"] and script_type in {...}: ...
FillClientCallable_unguarded(d, script_type) ==
    IF /\ script_type \in ScriptIncludeTypes
       /\ Contains(d["script_include"].v, Chars("AbstractAjaxProcessor"))
    THEN SetItem(d, "client_callable", Str(Chars("true")))
    ELSE d

FillClientCallable(d, script_type) ==
    IF /\ ~Truthy(d, "client_callable")
       /\ script_type \in ScriptIncludeTypes
       /\ Contains(d["script_include"].v, Chars("AbstractAjaxProcessor"))
    THEN SetItem(d, "client_callable", Str(Chars("true")))
    ELSE d

\* the last two statements of finalize_row
Finish(row, readme_markdown, script_type) ==
    IF row.st # "ok" THEN row
    ELSE Row(ExportRow(SetItem(FillClientCallable(row.d, script_type),
                               "description_markdown", Str(strip(readme_markdown)))))

finalize_row(row, readme_markdown, script_type, category, subcategory) ==
    IF row.st # "ok" THEN row
    ELSE Finish(
            FillLink(
              FillControllerAs(
                FillSpecializedArea(
                  FillFieldList(
                    FillTable(
                      FillEvent(
                        FillDescription(NormaliseFields(row.d), readme_markdown),
                        readme_markdown),
                      readme_markdown)),
                  script_type, category, subcategory),
                category, subcategory),
              category, subcategory),
            readme_markdown, script_type)

-----------------------------------------------------------------------------
(* scrape_all_scripts: one row per unit, asset and page.                   *)
(* contents is the text fetch_raw returns for each path.                   *)

\* the metadata loop of process_snippet and the two fix-ups after it
ApplyMetadata(d, metadata) ==
    LET d1 == [k \in DOMAIN d \cup DOMAIN metadata |->
                  IF k \notin DOMAIN metadata THEN d[k]
                  ELSE IF k \in BOOL_KEYS THEN Str(normalize_bool(metadata[k]))
                  ELSE Str(strip(metadata[k]))]
        d2 == IF "description" \in DOMAIN metadata /\ metadata["description"] # <<>>
              THEN SetItem(d1, "description", Str(metadata["description"]))
              ELSE d1
    IN  IF "applies_to" \in DOMAIN metadata /\ ~Truthy(d2, "table")
        THEN SetItem(d2, "table", Str(metadata["applies_to"]))
        ELSE d2

\* path[len(snippet_path) + 1:] if path.startswith(snippet_path + "/") else basename(path)
RelPath(snippet_path, path) ==
    IF StartsWith(path, snippet_path \o Chars("/"))
    THEN SubSeq(path, Len(snippet_path) + 2, Len(path))
    ELSE basename(path)

\* os.path.splitext(path.lower())[1]
ExtOf(path) == splitext_ext(lower(path))

\* the body of the file loop of process_snippet, for a file that is fetched
RouteFile(row, snippet_path, path, content, readme_lines) ==
    LET rel == RelPath(snippet_path, path)
        ext == ExtOf(path)
        lower_rel == lower(rel)
    IN  IF ext \in {Chars(".html"), Chars(".htm")} THEN append_value(row, "html", content)
        ELSE IF ext = Chars(".css") THEN append_value(row, "css", content)
        ELSE IF ext = Chars(".scss")
             THEN append_value(append_value(row, "scss", content), "css", content)
        ELSE IF ext = Chars(".xml")
             THEN IF row.st # "ok" THEN row
                  ELSE append_value(row, IF ~Truthy(row.d, "code") THEN "code" ELSE "code2", content)
        ELSE IF ext = Chars(".json")
             THEN IF \/ Contains(lower_rel, Chars("option_schema"))
                     \/ Contains(lower_rel, Chars("options_schema"))
                     \/ Contains(lower_rel, Chars("option-schema"))
                  THEN append_value(row, "option_schema", content)
                  ELSE IF Contains(lower_rel, Chars("demo")) \/ Contains(lower_rel, Chars("sample"))
                       THEN append_value(row, "demo_data", content)
                  ELSE append_value(row, "notes", content)
        ELSE IF ext = Chars(".md") THEN append_value(row, "notes", content)
        ELSE IF ext = Chars(".js")
             THEN assign_js(row,
                            classify_js_role(snippet_path, rel, basename(path), content, readme_lines),
                            content)
        ELSE row

RECURSIVE RouteFiles(_, _, _, _, _)
RouteFiles(row, snippet_path, paths, contents, readme_lines) ==
    IF paths = <<>> \/ row.st # "ok" THEN row
    ELSE RouteFiles(
            IF ExtOf(Head(paths)) \notin TEXT_EXTENSIONS THEN row
            ELSE IF contents[Head(paths)] = HTTPError THEN Raised(row.d, "HTTPError")
            ELSE RouteFile(row, snippet_path, Head(paths), contents[Head(paths)], readme_lines),
            snippet_path, Tail(paths), contents, readme_lines)

RECURSIVE AppendAll(_, _, _)
AppendAll(row, field, values) ==
    IF values = <<>> THEN row
    ELSE AppendAll(append_value(row, field, Head(values)), field, Tail(values))

\* if not row["code"] and not row["server_script"] and code_blocks: ...
AddCodeBlocks(row, code_blocks) ==
    IF row.st # "ok" THEN row
    ELSE IF ~Truthy(row.d, "code") /\ ~Truthy(row.d, "server_script") /\ code_blocks # <<>>
         THEN AppendAll(append_value(row, "code", Head(code_blocks)), "code2", Tail(code_blocks))
    ELSE row

\* the paths process_snippet hands to fetch_raw, in the order it does so
SnippetFetches(snippet_path, info) ==
    IF Len(split(snippet_path, "/")) < 3 THEN <<>>
    ELSE (IF info.readme # <<>> THEN <<info.readme>> ELSE <<>>)
         \o SelectSeq(sorted(info.files), LAMBDA path : ExtOf(path) \in TEXT_EXTENSIONS)

\* process_snippet from blank_row on, the readme fetched and parsed
SnippetRow(snippet_path, files, contents, readme_md, metadata, category, subcategory, name) ==
    LET Built(script_type) ==
            finalize_row(
                AddCodeBlocks(
                    RouteFiles(
                        Row(ApplyMetadata(
                                blank_row(IF "name" \in DOMAIN metadata THEN metadata["name"] ELSE name,
                                          script_type, category, subcategory, snippet_path).d,
                                metadata)),
                        snippet_path, sorted(files), contents, splitlines(readme_md)),
                    extract_code_blocks(readme_md)),
                readme_md, script_type, category, subcategory)
    IN  Built(ScriptTypeOf(category, subcategory))

process_snippet(snippet_path, info, contents) ==
    LET From(parts, readme_md) ==
            IF Len(parts) < 3 THEN EmptyDict
            ELSE IF readme_md = HTTPError THEN Raised(<<>>, "HTTPError")
            ELSE SnippetRow(snippet_path, info.files, contents, readme_md,
                            parse_readme_metadata(readme_md), parts[1], parts[2], parts[3])
    IN  From(split(snippet_path, "/"),
             IF info.readme # <<>> THEN contents[info.readme] ELSE <<>>)

AssetPrefix == Chars(ASSET_FOLDER) \o Chars("/")
PagesPrefix == Chars(PAGES_FOLDER) \o Chars("/")

\* the body of the loop of process_assets
AssetRow(path, contents) ==
    LET name == basename(path)
        rel == IF StartsWith(path, AssetPrefix)
               THEN SubSeq(path, Len(AssetPrefix) + 1, Len(path)) ELSE path
        subcategory == IF Contains(rel, Chars("/")) THEN split(rel, "/")[1] ELSE Chars("root")
        row == blank_row(name, Chars("Asset"), Chars(ASSET_FOLDER), subcategory, path)
        ext == ExtOf(path)
        content == contents[path]
        filled == IF ext \notin TEXT_EXTENSIONS THEN row
                  ELSE IF content = HTTPError THEN Raised(row.d, "HTTPError")
                  ELSE IF ext = Chars(".js") THEN append_value(row, "code", content)
                  ELSE IF ext \in {Chars(".css"), Chars(".scss")} THEN append_value(row, "css", content)
                  ELSE IF ext \in {Chars(".html"), Chars(".htm")} THEN append_value(row, "html", content)
                  ELSE append_value(row, "notes", content)
    IN  finalize_row(filled, <<>>, Chars("Asset"), Chars(ASSET_FOLDER), subcategory)

AssetFetches(asset_paths) ==
    SelectSeq(sorted(asset_paths), LAMBDA path : ExtOf(path) \in TEXT_EXTENSIONS)

\* the rows a loop has appended, or the exception the first failing
\* iteration raised out of it
RowList(results) ==
    LET bad == {i \in DOMAIN results : results[i].st # "ok"}
    IN  IF bad = {} THEN [st |-> "ok", rows |-> [i \in DOMAIN results |-> results[i].d], err |-> "none"]
        ELSE [st |-> "raised", rows |-> <<>>,
              err |-> results[CHOOSE i \in bad : \A j \in bad : i <= j].err]

process_assets(asset_paths, contents) ==
    LET ordered == sorted(asset_paths)
    IN  RowList([i \in DOMAIN ordered |-> AssetRow(ordered[i], contents)])

TitlePattern == Sq(<<L("<title>"), G(1, LazyStar(AnyChar)), L("</title>")>>)

\* the body of the loop of process_pages
PageRow(path, contents) ==
    LET row == blank_row(basename(path), Chars("Static Page"), Chars(PAGES_FOLDER), <<>>, path)
        content == contents[path]
        filled == append_value(row, "html", content)
        match == re_search(TitlePattern, content, TRUE)
        titled == IF match.found /\ filled.st = "ok"
                  THEN Row(SetItem(filled.d, "description", Str(strip(group(match, content, 1)))))
                  ELSE filled
    IN  IF content = HTTPError THEN Raised(row.d, "HTTPError")
        ELSE finalize_row(titled, <<>>, Chars("Static Page"), Chars(PAGES_FOLDER), <<>>)

PageFetches(page_paths) ==
    SelectSeq(sorted(page_paths), LAMBDA path : EndsWith(lower(path), Chars(".html")))

process_pages(page_paths, contents) ==
    LET ordered == PageFetches(page_paths)
    IN  RowList([i \in DOMAIN ordered |-> PageRow(ordered[i], contents)])

-----------------------------------------------------------------------------
(* scrape_all_scripts: grouping the tree into units *)

get_base_folder(path) ==
    LET bases == [i \in DOMAIN BASE_FOLDERS |-> Chars(BASE_FOLDERS[i])]
                 \o <<Chars(ASSET_FOLDER), Chars(PAGES_FOLDER)>>
        hits == {i \in DOMAIN bases : StartsWith(path, bases[i] \o Chars("/"))}
    IN  IF hits = {} THEN <<>>
        ELSE bases[CHOOSE i \in hits : \A j \in hits : i <= j]

resolve_snippet_root(base, path) ==
    LET rel == SubSeq(path, Len(base) + 2, Len(path))
        parts == split(rel, "/")
    IN  IF Len(parts) < 2 THEN <<>>
        ELSE base \o Chars("/") \o parts[1] \o Chars("/") \o parts[2]

NewEntry == [readme |-> <<>>, files |-> <<>>]

\* one iteration of the loop of group_snippets
GroupNode(g, node) ==
    IF node.type # "blob" THEN g
    ELSE LET path == node.path
             base == get_base_folder(path)
         IN  IF base = <<>> \/ base \in {Chars(ASSET_FOLDER), Chars(PAGES_FOLDER)} THEN g
             ELSE LET snippet == resolve_snippet_root(base, path)
                  IN  IF snippet = <<>> THEN g
                      ELSE LET entry == IF snippet \in DOMAIN g THEN g[snippet] ELSE NewEntry
                               filed == IF lower(basename(path)) = Chars("readme.md")
                                        THEN [entry EXCEPT !.readme = path]
                                        ELSE [entry EXCEPT !.files = Append(@, path)]
                           IN  [k \in DOMAIN g \cup {snippet} |-> IF k = snippet THEN filed ELSE g[k]]

RECURSIVE GroupFrom(_, _)
GroupFrom(g, nodes) ==
    IF nodes = <<>> THEN g ELSE GroupFrom(GroupNode(g, Head(nodes)), Tail(nodes))

group_snippets(nodes) == GroupFrom(<<>>, nodes)

BlobPaths(nodes) ==
    LET blobs == SelectSeq(nodes, LAMBDA node : node.type = "blob")
    IN  [i \in DOMAIN blobs |-> blobs[i].path]

gather_assets(nodes) == SelectSeq(BlobPaths(nodes), LAMBDA path : StartsWith(path, AssetPrefix))

gather_pages(nodes) == SelectSeq(BlobPaths(nodes), LAMBDA path : StartsWith(path, PagesPrefix))

\* sorted(snippets.keys())
RECURSIVE SetToSortedSeq(_)
SetToSortedSeq(S) ==
    IF S = {} THEN <<>>
    ELSE LET least == CHOOSE x \in S : \A y \in S : x = y \/ StrLess(x, y)
         IN  <<least>> \o SetToSortedSeq(S \ {least})

-----------------------------------------------------------------------------
(* scrape_all_scripts: the run.                                            *)
(* The repository is one of a few small snapshots; the tree request lists  *)
(* some of its nodes in whatever order the server chooses.                 *)

Blob(path, text) == [path |-> Chars(path), type |-> "blob", text |-> text]
Dir(path) == [path |-> Chars(path), type |-> "tree", text |-> <<>>]

AjaxCode == Chars("A.prototype = Object.extendsObject(AbstractAjaxProcessor, {});")

Repositories ==
    {<<Blob("Server-Side Components/Script Includes/Ajax/README.md",
            Chars("# Ajax\nClient callable: yes\n")),
       Blob("Server-Side Components/Script Includes/Ajax/ajax.js", AjaxCode),
       Blob("Client-Side Components/UX Client Script Include/Util/README.md",
            Chars("Glide AJAX enabled: false\nTable: incident\n")),
       Blob("Client-Side Components/UX Client Script Include/Util/util.js", AjaxCode),
       Dir("Server-Side Components/Script Includes")>>,
     <<Blob("Server-Side Components/Script Includes/Ajax/README.md",
            Chars("Helper for GlideAjax\nLink: https://x.io/a\n")),
       Blob("Server-Side Components/Script Includes/Ajax/ajax.js", AjaxCode),
       Blob("Client-Side Components/UX Client Script Include/Util/util.js", AjaxCode),
       Blob("Server-Side Components/Script Includes/Plain/plain.js", Chars("gs.info(1);")),
       Blob("assets/app.js", Chars("go();\n"))>>,
     <<Blob("Client-Side Components/Client Scripts/Pair/README.md",
            Chars("Description: Sets value\n")),
       Blob("Client-Side Components/Client Scripts/Pair/a.js", Chars("alert(1);")),
       Blob("Client-Side Components/Client Scripts/Pair/b.js", Chars("\nalert(2); \n")),
       Blob("Client-Side Components/Client Scripts/Pair/blank.js", Chars(" \n")),
       Blob("Client-Side Components/Client Scripts/Solo/c.js",
            Chars("function onChange(c) { g_form.setValue('priority', '1'); }"))>>,
     <<Blob("Modern Development/Service Portal Widgets/Clock/client.js",
            Chars("function link(scope) { var c = this; }")),
       Blob("Modern Development/Service Portal Widgets/Clock/server.js", Chars("data.x = 1;")),
       Blob("Modern Development/Service Portal Widgets/Clock/style.scss", Chars("a { b: c }")),
       Blob("pages/index.html", Chars("<title> Home </title>")),
       Blob("assets/img/logo.png", <<>>)>>,
     <<Blob("Client-Side Components/UI Actions/Prio/README.md",
            Chars("Description: Sets field value\n")),
       Blob("Client-Side Components/UI Actions/Prio/client.js",
            Chars("function onChange() { g_form.setValue('urgency', 1); g_form.getValue('impact'); }")),
       Blob("Client-Side Components/UI Actions/Prio/server.js",
            Chars("var gr = new GlideRecord('incident');")),
       Blob("Client-Side Components/UI Actions/Prio/docs/README.md", Chars("Run as: admin\n")),
       Blob("Client-Side Components/UI Actions/top.js", Chars("gs.info(0);"))>>}

MaxTreeLen == 3

\* the listings of at most MaxTreeLen distinct nodes of a snapshot
Listings(repo) ==
    LET picks == UNION {[1..n -> DOMAIN repo] : n \in 0..MaxTreeLen}
        distinct == {f \in picks : \A i, j \in DOMAIN f : f[i] = f[j] => i = j}
    IN  {[i \in DOMAIN f |-> repo[f[i]]] : f \in distinct}

TreeNodes(listing) == [i \in DOMAIN listing |-> [path |-> listing[i].path, type |-> listing[i].type]]

RawContents(listing) ==
    LET blobs == {i \in DOMAIN listing : listing[i].type = "blob"}
    IN  [path \in {listing[i].path : i \in blobs} |->
            listing[CHOOSE i \in blobs : listing[i].path = path].text]

NoPath == <<>>

\* the contents fetch_raw yields when the request for path bad fails
Failing(contents, bad) ==
    [path \in DOMAIN contents |-> IF path = bad THEN HTTPError ELSE contents[path]]

Init ==
    /\ \E repo \in Repositories : \E listing \in Listings(repo) :
          /\ tree = TreeNodes(listing)
          /\ raw = RawContents(listing)
    /\ pc = "start"
    /\ grouped = <<>>
    /\ todo = <<>>
    /\ rows = <<>>
    /\ failed = {}
    /\ arg = <<>>
    /\ ret = "none"

\* get_branch_sha, list_tree_recursive and group_snippets
ListTree ==
    /\ pc = "start"
    /\ grouped' = group_snippets(tree)
    /\ todo' = SetToSortedSeq(DOMAIN grouped')
    /\ pc' = "units"
    /\ UNCHANGED <<tree, raw, rows, failed, arg, ret>>

\* a request of get_branch_sha or list_tree_recursive raises
ListTreeFails ==
    /\ pc = "start"
    /\ pc' = "aborted"
    /\ ret' = "HTTPError"
    /\ UNCHANGED <<tree, raw, grouped, todo, rows, failed, arg>>

\* one iteration of the unit loop of scrape_all; at most one of the unit's
\* fetches fails
ProcessSnippet ==
    /\ pc = "units"
    /\ todo # <<>>
    /\ \E bad \in {NoPath} \cup Range(SnippetFetches(Head(todo), grouped[Head(todo)])) :
          \E row \in {process_snippet(Head(todo), grouped[Head(todo)], Failing(raw, bad))} :
              IF row.st = "raised"
              THEN /\ pc' = "aborted"
                   /\ ret' = row.err
                   /\ failed' = IF row.err = "HTTPError" THEN {bad} ELSE {}
                   /\ UNCHANGED <<todo, rows>>
              ELSE /\ rows' = IF row.st = "ok" THEN Append(rows, row.d) ELSE rows
                   /\ todo' = Tail(todo)
                   /\ UNCHANGED <<pc, ret, failed>>
    /\ UNCHANGED <<tree, raw, grouped, arg>>

\* rows.extend(process_assets(gather_assets(tree)))
ProcessAssets ==
    /\ pc = "units"
    /\ todo = <<>>
    /\ \E bad \in {NoPath} \cup Range(AssetFetches(gather_assets(tree))) :
          \E out \in {process_assets(gather_assets(tree), Failing(raw, bad))} :
              IF out.st = "raised"
              THEN /\ pc' = "aborted"
                   /\ ret' = out.err
                   /\ failed' = IF out.err = "HTTPError" THEN {bad} ELSE {}
                   /\ UNCHANGED rows
              ELSE /\ rows' = rows \o out.rows
                   /\ pc' = "pages"
                   /\ UNCHANGED <<ret, failed>>
    /\ UNCHANGED <<tree, raw, grouped, todo, arg>>

\* rows.extend(process_pages(gather_pages(tree))) and the data frame
ProcessPages ==
    /\ pc = "pages"
    /\ \E bad \in {NoPath} \cup Range(PageFetches(gather_pages(tree))) :
          \E out \in {process_pages(gather_pages(tree), Failing(raw, bad))} :
              IF out.st = "raised"
              THEN /\ pc' = "aborted"
                   /\ ret' = out.err
                   /\ failed' = IF out.err = "HTTPError" THEN {bad} ELSE {}
                   /\ UNCHANGED rows
              ELSE /\ rows' = rows \o out.rows
                   /\ pc' = "done"
                   /\ UNCHANGED <<ret, failed>>
    /\ UNCHANGED <<tree, raw, grouped, todo, arg>>

Next == ListTree \/ ListTreeFails \/ ProcessSnippet \/ ProcessAssets \/ ProcessPages

Spec == Init /\ [][Next]_vars

\* what scrape_all returns: the data frame of the rows, and nothing when an
\* exception left it
Emitted == IF pc = "done" THEN rows ELSE <<>>

-----------------------------------------------------------------------------
(* Properties of the run *)

\* the readme text of the unit record i was built from, empty without one
ReadmeOf(i) ==
    LET unit == rows[i]["repo_path"].v
    IN  IF unit \in DOMAIN grouped /\ grouped[unit].readme # <<>>
        THEN raw[grouped[unit].readme] ELSE <<>>

\* the readme and content files of a unit
UnitPaths(unit) ==
    Range(grouped[unit].files) \cup (IF grouped[unit].readme # <<>> THEN {grouped[unit].readme} ELSE {})

IsUnitFile(path) == \E unit \in DOMAIN grouped : path \in UnitPaths(unit)

\* C1: when the fetch of a unit's readme or content file fails, the run does
\* not abort: it goes on to emit a record for every other unit, and the unit
\* itself is emitted with what could be read or skipped.
C1_FetchFailureDoesNotAbort ==
    (\E path \in failed : IsUnitFile(path)) =>
        /\ pc # "aborted"
        /\ pc = "done" =>
              \A unit \in DOMAIN grouped :
                  (failed \cap UnitPaths(unit) = {}) =>
                      \E i \in DOMAIN Emitted : Emitted[i]["repo_path"].v = unit

\* C2: every record finalize_row returns has exactly the fields of
\* ALL_FIELDS as its keys, and every value is a string, never a list.
C2_RecordShape ==
    \A i \in DOMAIN rows :
        /\ DOMAIN rows[i] = Range(ALL_FIELDS)
        /\ \A key \in DOMAIN rows[i] :
              ~rows[i][key].list /\ rows[i][key].v \in Seq(Range(Printable) \cup Whitespace)

\* C2 witness: a finished run whose record was assembled from a readme that
\* sets a list field and from a script file routed into another list field.
C2_Witness ==
    /\ pc = "done"
    /\ \E i \in DOMAIN rows :
          /\ rows[i]["link"].v = Chars("https://x.io/a")
          /\ Contains(rows[i]["script_include"].v, Chars("AbstractAjaxProcessor"))
          /\ rows[i]["description"].v # <<>>

\* the .js files of the unit record i was built from, in sorted order
JsFilesOf(i) ==
    SelectSeq(sorted(grouped[rows[i]["repo_path"].v].files),
              LAMBDA path : ExtOf(path) = Chars(".js"))

Unclassifiable(i, path) ==
    infer_js_role(basename(path), raw[path], splitlines(ReadmeOf(i))) = "unknown"

\* C5: in a client-script unit with two .js files that name, content and
\* readme all leave unclassified, the first becomes the client script and
\* the second goes to the script-include field.
C5_SecondUnknownIsInclude ==
    \A i \in DOMAIN rows :
        (/\ rows[i]["category"].v = Chars("Client-Side Components")
         /\ rows[i]["subcategory"].v = Chars("Client Scripts")
         /\ Len(JsFilesOf(i)) = 2
         /\ \A k \in 1..2 : Unclassifiable(i, JsFilesOf(i)[k]))
        => /\ rows[i]["client_script"].v = strip(raw[JsFilesOf(i)[1]])
           /\ rows[i]["script_include"].v = strip(raw[JsFilesOf(i)[2]])

ClientCallablePattern == PatternsOf("client_callable")[1]

\* the explicit client-callable line of a readme, if it has one
ClientCallableLine(md) == re_search(ClientCallablePattern, md, TRUE)

\* C9: a readme line "Client callable: v" or "Glide AJAX enabled: v" makes
\* client_callable the canonical boolean of v; the label is never the value.
C9_ClientCallableIsValue ==
    \A i \in DOMAIN rows :
        ClientCallableLine(ReadmeOf(i)).found =>
            rows[i]["client_callable"].v
                = normalize_bool(strip(group(ClientCallableLine(ReadmeOf(i)), ReadmeOf(i), 2)))

ScriptIncludeShaped(i) ==
    \/ /\ rows[i]["category"].v = Chars("Server-Side Components")
       /\ rows[i]["subcategory"].v = Chars("Script Includes")
    \/ /\ rows[i]["category"].v = Chars("Client-Side Components")
       /\ rows[i]["subcategory"].v = Chars("UX Client Script Include")

\* C10: a script-include-shaped unit, Server-Side Components/Script Includes
\* among them, whose code mentions AbstractAjaxProcessor and whose readme has
\* no explicit client-callable line gets client_callable "true".
C10_AjaxProcessorIsCallable ==
    \A i \in DOMAIN rows :
        (/\ ScriptIncludeShaped(i)
         /\ ~ClientCallableLine(ReadmeOf(i)).found
         /\ Contains(rows[i]["script_include"].v, Chars("AbstractAjaxProcessor")))
        => rows[i]["client_callable"].v = Chars("true")

-----------------------------------------------------------------------------
(* scrape_client_scripts: the client-scripts scraper.                      *)
(* Its rows are modelled in the columns title, client_script and           *)
(* script_include; event, table, field_name and description are read off   *)
(* the readme and the combined script and feed nothing back.               *)

CS_FOLDER == Chars("Client-Side Components/Client Scripts")

CS_CLIENT_NAME_HINTS ==
    <<"client", "onload", "onchange", "onsubmit", "oncelledit", "onvaluechange", "catalog",
      "portal", "script">>

CS_INCLUDE_NAME_HINTS == <<"include", "ajax", "util", "utils", "provider", "server", "processor">>

\* one iteration of the loop of group_files
CsGroupNode(g, node) ==
    LET Into(entry, filename) ==
            IF lower(filename) = Chars("readme.md") THEN [entry EXCEPT !.readme = node.path]
            ELSE [entry EXCEPT !.js = Append(@, node.path)]
        Filed(parts) ==
            IF Len(parts) # 2 THEN g
            ELSE IF /\ lower(parts[2]) # Chars("readme.md")
                    /\ ~EndsWith(lower(parts[2]), Chars(".js"))
                 THEN g
            ELSE [k \in DOMAIN g \cup {parts[1]} |->
                    IF k = parts[1]
                    THEN Into(IF k \in DOMAIN g THEN g[k] ELSE [readme |-> <<>>, js |-> <<>>],
                              parts[2])
                    ELSE g[k]]
    IN  IF node.type # "blob" \/ ~StartsWith(node.path, CS_FOLDER \o Chars("/")) THEN g
        ELSE Filed(split(SubSeq(node.path, Len(CS_FOLDER) + 2, Len(node.path)), "/"))

RECURSIVE CsGroupFrom(_, _)
CsGroupFrom(g, nodes) ==
    IF nodes = <<>> THEN g ELSE CsGroupFrom(CsGroupNode(g, Head(nodes)), Tail(nodes))

cs_group_files(nodes) == CsGroupFrom(<<>>, nodes)

\* re.sub(r"[^a-z0-9]", "", value.lower())
cs_normalize_token(value) == OnlyAlnum(lower(value))

cs_readme_mentions(filename, lines, keyword) ==
    /\ lines # <<>>
    /\ cs_normalize_token(splitext_root(filename)) # <<>>
    /\ \E i \in DOMAIN lines :
          /\ Contains(lower(lines[i]), lower(keyword))
          /\ Contains(cs_normalize_token(lines[i]), cs_normalize_token(splitext_root(filename)))

cs_infer_js_role(filename, code, readme_lines) ==
    IF \/ cs_readme_mentions(filename, readme_lines, Chars("script include"))
       \/ cs_readme_mentions(filename, readme_lines, Chars("server script"))
    THEN "script_include"
    ELSE IF cs_readme_mentions(filename, readme_lines, Chars("client script")) THEN "client"
    ELSE IF AnyHint(CS_INCLUDE_NAME_HINTS, lower(filename)) /\ ~Contains(lower(code), Chars("g_form"))
         THEN "script_include"
    ELSE IF AnyHint(CS_CLIENT_NAME_HINTS, lower(filename)) THEN "client"
    ELSE IF AnyHint(ClientTriggers, lower(code)) THEN "client"
    ELSE IF Contains(lower(code), Chars("g_form")) \/ Contains(lower(code), Chars("g_scratchpad"))
         THEN "client"
    ELSE IF AnyHint(ServerIdioms, lower(code)) /\ ~Contains(lower(code), Chars("g_form"))
         THEN "script_include"
    ELSE "unknown"

split_js_files(entries, readme_lines) ==
    LET Role(e) == cs_infer_js_role(e.filename, e.code, readme_lines)
        Split(clients, includes, unknown) ==
            IF clients = <<>> /\ unknown # <<>>
            THEN [clients |-> <<Head(unknown)>>, includes |-> includes \o Tail(unknown)]
            ELSE [clients |-> clients, includes |-> includes \o unknown]
    IN  Split(SelectSeq(entries, LAMBDA e : Role(e) = "client"),
              SelectSeq(entries, LAMBDA e : Role(e) = "script_include"),
              SelectSeq(entries, LAMBDA e : Role(e) = "unknown"))

\* sorted(entries, key=lambda item: item[0].lower()), blank codes dropped,
\* the rest stripped and joined by a blank line
combine_scripts(entries) ==
    LET Joined(ordered) == join(BlankLine, Cleaned([i \in DOMAIN ordered |-> ordered[i].code]))
    IN  Joined(SortedByKey(entries, [i \in DOMAIN entries |-> lower(entries[i].filename)]))

\* the paths one iteration of the loop of scrape hands to fetch_raw
CsFetches(files) == (IF files.readme # <<>> THEN <<files.readme>> ELSE <<>>) \o files.js

\* the body of the loop of scrape
CsRow(folder, files, contents) ==
    LET Build(split_) ==
            [title |-> folder,
             client_script |-> combine_scripts(split_.clients),
             script_include |-> combine_scripts(split_.includes)]
    IN  IF \E i \in DOMAIN CsFetches(files) : contents[CsFetches(files)[i]] = HTTPError
        THEN Raised(<<>>, "HTTPError")
        ELSE Row(Build(split_js_files(
                 [i \in DOMAIN files.js |->
                     [filename |-> basename(files.js[i]), code |-> contents[files.js[i]]]],
                 splitlines(IF files.readme # <<>> THEN contents[files.readme] ELSE <<>>))))

ClientScriptRepositories ==
    {<<Blob("Client-Side Components/Client Scripts/Pair/README.md", Chars("Description: Sets value\n")),
       Blob("Client-Side Components/Client Scripts/Pair/a.js", Chars("alert(1);")),
       Blob("Client-Side Components/Client Scripts/Pair/b.js", Chars(" alert(2);\n")),
       Blob("Client-Side Components/Client Scripts/Solo/onload.js", Chars("function onLoad() {}")),
       Dir("Client-Side Components/Client Scripts/Pair")>>,
     <<Blob("Client-Side Components/Client Scripts/Utils/README.md", Chars("zclient is the client script\n")),
       Blob("Client-Side Components/Client Scripts/Utils/Util.js", Chars("gs.info(1);")),
       Blob("Client-Side Components/Client Scripts/Utils/util.js", Chars(" gs.info(2);\n")),
       Blob("Client-Side Components/Client Scripts/Utils/Butil.js", Chars("gs.info(3);")),
       Blob("Client-Side Components/Client Scripts/Utils/zclient.js", Chars("g_form.clearMessages();"))>>}

InitClientScripts ==
    /\ \E repo \in ClientScriptRepositories : \E listing \in Listings(repo) :
          /\ tree = TreeNodes(listing)
          /\ raw = RawContents(listing)
    /\ pc = "cs_start"
    /\ grouped = <<>>
    /\ todo = <<>>
    /\ rows = <<>>
    /\ failed = {}
    /\ arg = <<>>
    /\ ret = "none"

\* get_branch_sha, list_tree_recursive and group_files
CsListTree ==
    /\ pc = "cs_start"
    /\ grouped' = cs_group_files(tree)
    /\ todo' = SetToSortedSeq(DOMAIN grouped')
    /\ pc' = "cs_folders"
    /\ UNCHANGED <<tree, raw, rows, failed, arg, ret>>

CsListTreeFails ==
    /\ pc = "cs_start"
    /\ pc' = "aborted"
    /\ ret' = "HTTPError"
    /\ UNCHANGED <<tree, raw, grouped, todo, rows, failed, arg>>

\* one iteration of the loop of scrape; at most one of its fetches fails
CsScrapeFolder ==
    /\ pc = "cs_folders"
    /\ todo # <<>>
    /\ \E bad \in {NoPath} \cup Range(CsFetches(grouped[Head(todo)])) :
          \E row \in {CsRow(Head(todo), grouped[Head(todo)], Failing(raw, bad))} :
              IF row.st = "raised"
              THEN /\ pc' = "aborted"
                   /\ ret' = row.err
                   /\ failed' = {bad}
                   /\ UNCHANGED <<todo, rows>>
              ELSE /\ rows' = Append(rows, row.d)
                   /\ todo' = Tail(todo)
                   /\ UNCHANGED <<pc, ret, failed>>
    /\ UNCHANGED <<tree, raw, grouped, arg>>

\* return pd.DataFrame(rows)
CsFinish ==
    /\ pc = "cs_folders"
    /\ todo = <<>>
    /\ pc' = "cs_done"
    /\ UNCHANGED <<tree, raw, grouped, todo, rows, failed, arg, ret>>

NextClientScripts == CsListTree \/ CsListTreeFails \/ CsScrapeFolder \/ CsFinish

SpecClientScripts == InitClientScripts /\ [][NextClientScripts]_vars

-----------------------------------------------------------------------------
(* Properties of the client-scripts scraper *)

\* the (filename, code) pairs of the folder of row i, as the listing enumerated them
CsEntriesOf(i) ==
    LET js == grouped[rows[i].title].js
    IN  [k \in DOMAIN js |-> [filename |-> basename(js[k]), code |-> raw[js[k]]]]

CsReadmeLinesOf(i) ==
    LET readme == grouped[rows[i].title].readme
    IN  splitlines(IF readme # <<>> THEN raw[readme] ELSE <<>>)

\* the non-blank trimmed codes of the entries, joined by a blank line in the
\* lexicographic order of their file names
JoinedInPathOrder(entries) ==
    LET ordered == SortedByKey(entries, [k \in DOMAIN entries |-> entries[k].filename])
    IN  join(BlankLine, Cleaned([k \in DOMAIN ordered |-> ordered[k].code]))

\* C3: a combined field is the non-blank trimmed contents of its files
\* joined by a blank line in the lexicographic order of the files' paths,
\* whatever order the listing enumerated them in.
C3_CombinedInPathOrder ==
    \A i \in DOMAIN rows :
        LET parts == split_js_files(CsEntriesOf(i), CsReadmeLinesOf(i))
        IN  /\ rows[i].client_script = JoinedInPathOrder(parts.clients)
            /\ rows[i].script_include = JoinedInPathOrder(parts.includes)

CsUnknownOf(i) ==
    SelectSeq(CsEntriesOf(i),
              LAMBDA e : cs_infer_js_role(e.filename, e.code, CsReadmeLinesOf(i)) = "unknown")

CsHasClient(i) ==
    \E k \in DOMAIN CsEntriesOf(i) :
        cs_infer_js_role(CsEntriesOf(i)[k].filename, CsEntriesOf(i)[k].code, CsReadmeLinesOf(i))
            = "client"

\* C6: when no file is classified as client, the unknown file promoted to
\* client script is the lexicographically first unknown file, so the split
\* does not depend on the order of the listing.
C6_PromotesFirstByName ==
    \A i \in DOMAIN rows :
        (~CsHasClient(i) /\ CsUnknownOf(i) # <<>>) =>
            rows[i].client_script
                = strip(SortedByKey(CsUnknownOf(i),
                                    [k \in DOMAIN CsUnknownOf(i) |-> CsUnknownOf(i)[k].filename])[1].code)

-----------------------------------------------------------------------------
(* The background-scripts scraper (scrape_background_scripts.py): one record
   per folder that has a README, holding the README and one code field *)

BG_FOLDER == Chars("Server-Side Components/Background Scripts")

\* one iteration of the loop of group_background_scripts_files; an entry is
\* created as soon as a readme or a .js file of the folder is met
BgGroupNode(g, node) ==
    LET Into(entry, filename) ==
            IF lower(filename) = Chars("readme.md") THEN [entry EXCEPT !.README = node.path]
            ELSE IF entry.CODE1 = <<>> THEN [entry EXCEPT !.CODE1 = node.path]
            ELSE IF entry.CODE2 = <<>> THEN [entry EXCEPT !.CODE2 = node.path]
            ELSE entry
        Filed(folder, filename) ==
            IF /\ lower(filename) # Chars("readme.md")
               /\ ~EndsWith(lower(filename), Chars(".js"))
            THEN g
            ELSE [k \in DOMAIN g \cup {folder} |->
                    IF k = folder
                    THEN Into(IF k \in DOMAIN g THEN g[k]
                              ELSE [README |-> <<>>, CODE1 |-> <<>>, CODE2 |-> <<>>],
                              filename)
                    ELSE g[k]]
        Parted(parts) ==
            IF Len(parts) < 2 THEN g
            ELSE Filed(parts[1], join(Chars("/"), Tail(parts)))
    IN  IF node.type # "blob" \/ ~StartsWith(node.path, BG_FOLDER \o Chars("/")) THEN g
        ELSE Parted(split(SubSeq(node.path, Len(BG_FOLDER) + 2, Len(node.path)), "/"))

RECURSIVE BgGroupFrom(_, _)
BgGroupFrom(g, nodes) ==
    IF nodes = <<>> THEN g ELSE BgGroupFrom(BgGroupNode(g, Head(nodes)), Tail(nodes))

group_background_scripts_files(nodes) == BgGroupFrom(<<>>, nodes)

BgCodeBlockPattern ==
    Sq(<<LitSeq(Fence), Alt(<<L("javascript"), L("js")>>),
         S0, L("\n"), G(1, LazyStar(AnyChar)), L("\n"), LitSeq(Fence)>>)

extract_code_from_readme(readme) ==
    LET First(matches) == IF matches # <<>> THEN strip(matches[1]) ELSE <<>>
    IN  First(re_findall(BgCodeBlockPattern, readme, FALSE))

\* the paths build_row requests, in order
BgFetches(files) ==
    SelectSeq(<<files.README, files.CODE1, files.CODE2>>, LAMBDA path : path # <<>>)

build_row(name, files, contents) ==
    LET Fetched(path) == IF path # <<>> THEN contents[path] ELSE <<>>
        Built(readme, code1) ==
            [title |-> name,
             description |-> readme,
             code |-> IF code1 = <<>> THEN extract_code_from_readme(readme) ELSE code1,
             repo_path |-> BG_FOLDER \o Chars("/") \o name]
    IN  IF \E i \in DOMAIN BgFetches(files) : contents[BgFetches(files)[i]] = HTTPError
        THEN Raised(<<>>, "HTTPError")
        ELSE Row(Built(Fetched(files.README), Fetched(files.CODE1)))

BackgroundRepositories ==
    {<<Blob("Server-Side Components/Background Scripts/Fix/README.md", Chars("Fixes records\n")),
       Blob("Server-Side Components/Background Scripts/Fix/one.js", Chars("gs.info(1);")),
       Blob("Server-Side Components/Background Scripts/Fix/two.js", Chars(" gs.info(2);\n")),
       Blob("Server-Side Components/Background Scripts/Fix/three.js", Chars("gs.info(3);")),
       Dir("Server-Side Components/Background Scripts/Fix")>>,
     <<Blob("Server-Side Components/Background Scripts/Doc/README.md",
            Fence \o Chars("js\nvar a = 1;\n") \o Fence),
       Blob("Server-Side Components/Background Scripts/Doc/empty.js", <<>>),
       Blob("Server-Side Components/Background Scripts/Doc/notes.txt", Chars("n")),
       Blob("Server-Side Components/Background Scripts/Bare/x.js", Chars("gs.info(4);")),
       Blob("Server-Side Components/Background Scripts/Doc/sub/deep.js", Chars("gs.info(5);"))>>}

InitBackground ==
    /\ \E repo \in BackgroundRepositories : \E listing \in Listings(repo) :
          /\ tree = TreeNodes(listing)
          /\ raw = RawContents(listing)
    /\ pc = "bg_start"
    /\ grouped = <<>>
    /\ todo = <<>>
    /\ rows = <<>>
    /\ failed = {}
    /\ arg = <<>>
    /\ ret = "none"

\* get_branch_sha, list_tree_recursive and group_background_scripts_files
BgListTree ==
    /\ pc = "bg_start"
    /\ grouped' = group_background_scripts_files(tree)
    /\ todo' = SetToSortedSeq(DOMAIN grouped')
    /\ pc' = "bg_folders"
    /\ UNCHANGED <<tree, raw, rows, failed, arg, ret>>

BgListTreeFails ==
    /\ pc = "bg_start"
    /\ pc' = "aborted"
    /\ ret' = "HTTPError"
    /\ UNCHANGED <<tree, raw, grouped, todo, rows, failed, arg>>

\* an iteration of the loop of scrape for a folder with a README; at most one
\* of the fetches of build_row fails
BgBuildRow ==
    /\ pc = "bg_folders"
    /\ todo # <<>>
    /\ grouped[Head(todo)].README # <<>>
    /\ \E bad \in {NoPath} \cup Range(BgFetches(grouped[Head(todo)])) :
          \E row \in {build_row(Head(todo), grouped[Head(todo)], Failing(raw, bad))} :
              IF row.st = "raised"
              THEN /\ pc' = "aborted"
                   /\ ret' = row.err
                   /\ failed' = {bad}
                   /\ UNCHANGED <<todo, rows>>
              ELSE /\ rows' = Append(rows, row.d)
                   /\ todo' = Tail(todo)
                   /\ UNCHANGED <<pc, ret, failed>>
    /\ UNCHANGED <<tree, raw, grouped, arg>>

\* an iteration of the loop of scrape for a folder without a README
BgSkipFolder ==
    /\ pc = "bg_folders"
    /\ todo # <<>>
    /\ grouped[Head(todo)].README = <<>>
    /\ todo' = Tail(todo)
    /\ UNCHANGED <<tree, raw, pc, grouped, rows, failed, arg, ret>>

\* return pd.DataFrame(rows)
BgFinish ==
    /\ pc = "bg_folders"
    /\ todo = <<>>
    /\ pc' = "bg_done"
    /\ UNCHANGED <<tree, raw, grouped, todo, rows, failed, arg, ret>>

NextBackground == BgListTree \/ BgListTreeFails \/ BgBuildRow \/ BgSkipFolder \/ BgFinish

SpecBackground == InitBackground /\ [][NextBackground]_vars

\* the .js files the grouping filed under the folder of row i
BgCodeFilesOf(i) ==
    {grouped[rows[i].title].CODE1, grouped[rows[i].title].CODE2} \ {<<>>}

\* C4: no content is dropped: the trimmed content of every non-blank .js
\* file grouped under a unit appears in the code field of the unit's record.
C4_NoContentDropped ==
    \A i \in DOMAIN rows : \A path \in BgCodeFilesOf(i) :
        strip(raw[path]) # <<>> => Contains(rows[i].code, strip(raw[path]))

-----------------------------------------------------------------------------
(* Properties of the derivations of finalize_row *)

DefinesHandler(code, event) == Contains(code, Chars("function ") \o event)

\* C11: when the readme of a unit is present and names no event, and the
\* primary client script defines an event handler such as function onChange,
\* the record's client_side_type is that event.
C11_EventFromClientScript ==
    \A i \in DOMAIN rows : \A k \in DOMAIN EventTokens :
        (/\ ReadmeOf(i) # <<>>
         /\ parse_event(ReadmeOf(i)) = <<>>
         /\ DefinesHandler(rows[i]["client_script"].v, EventTokens[k]))
        => rows[i]["client_side_type"].v = EventTokens[k]

\* a call of any of the form-API methods with a string literal first argument
AnyGFormCall ==
    Sq(<<WB, L("g_form."), Alt([k \in DOMAIN GF_METHODS |-> L(GF_METHODS[k])]), L("("), S0,
         One(Quote), G(1, Plus(InSet(IdentChars))), One(Quote)>>)

\* the first arguments of the form-API calls in the order of the text
FieldsInTextOrder(js) == re_findall(AnyGFormCall, js, FALSE)

FirstSeen(tokens, name) == CHOOSE i \in DOMAIN tokens : tokens[i] = name /\ \A j \in 1..(i - 1) : tokens[j] # name

\* the names by descending frequency, ties by first appearance in the text
RECURSIVE ByCountThenFirstSeen(_, _)
ByCountThenFirstSeen(names, tokens) ==
    IF names = {} THEN <<>>
    ELSE LET best == CHOOSE a \in names :
                        \A b \in names \ {a} :
                            \/ Count(tokens, a) > Count(tokens, b)
                            \/ /\ Count(tokens, a) = Count(tokens, b)
                               /\ FirstSeen(tokens, a) < FirstSeen(tokens, b)
         IN  <<best>> \o ByCountThenFirstSeen(names \ {best}, tokens)

FieldListLine(md) == re_search(PatternsOf("field_list")[1], md, TRUE)

\* C12: a field list derived from code names the string-literal first
\* arguments of the form-API calls by descending frequency, ties in the order
\* of first appearance in the text, and keeps the first three, comma-joined.
C12_FieldsRankedFirstSeen ==
    \A i \in DOMAIN rows :
        LET Expected(tokens) == join(Chars(", "), Take(ByCountThenFirstSeen(Range(tokens), tokens), 3))
            Holds(tokens) == tokens # <<>> => rows[i]["field_list"].v = Expected(tokens)
        IN  ~FieldListLine(ReadmeOf(i)).found
                => Holds(FieldsInTextOrder(rows[i]["client_script"].v))

\* C13: when the readme yields no table and the non-empty primary client
\* script holds no table idiom, a table named by a record-access constructor
\* in the server code becomes the record's table.
C13_TableFromServerCode ==
    \A i \in DOMAIN rows :
        (/\ parse_table_from_readme(ReadmeOf(i)) = <<>>
         /\ rows[i]["client_script"].v # <<>>
         /\ parse_table_from_code(rows[i]["client_script"].v) = <<>>
         /\ parse_table_from_code(rows[i]["code"].v) # <<>>)
        => rows[i]["table"].v = parse_table_from_code(rows[i]["code"].v)

\* the line begins with the label of one of the labelled entries of README_PATTERNS
StartsWithLabel(line) ==
    \E k \in DOMAIN README_PATTERNS :
        /\ README_PATTERNS[k].key # "client_side_type"
        /\ \E n \in DOMAIN README_PATTERNS[k].patterns :
              \E m \in {re_search(README_PATTERNS[k].patterns[n], line, TRUE)} :
                  m.found /\ m.s = 1

\* C14: without an explicit description line in the readme, the description
\* is never a line that begins with a label one of the other field patterns
\* recognises, such as API Name, Run as, Link or Mobile callable.
C14_DescriptionSkipsLabels ==
    \A i \in DOMAIN rows :
        (ReadmeOf(i) # <<>> /\ ~re_search(DescriptionPattern, ReadmeOf(i), TRUE).found)
            => ~StartsWithLabel(rows[i]["description"].v)

-----------------------------------------------------------------------------
(* Units without a readme *)

\* C15: a unit with at least one content file and no readme still yields a
\* record, built from its content files alone.
C15_RecordWithoutReadme ==
    pc = "bg_done" =>
        \A folder \in DOMAIN grouped :
            (grouped[folder].README = <<>> /\ grouped[folder].CODE1 # <<>>)
                => \E i \in DOMAIN rows : rows[i].title = folder

-----------------------------------------------------------------------------
(* Properties of group_snippets *)

\* C16: a unit exists only for a path with the whole category/subcategory/name
\* folder prefix followed by a file: every unit id is a strict directory
\* prefix of each of its member paths, and no unit is keyed by the path of a
\* file.
C16_UnitIsFolderOfItsFiles ==
    \A unit \in DOMAIN grouped :
        /\ \A path \in UnitPaths(unit) : StartsWith(path, unit \o Chars("/"))
        /\ \A k \in DOMAIN tree : tree[k].type = "blob" => tree[k].path # unit

\* the blobs of the listing that group_snippets assigns to the unit
AssignedTo(unit) ==
    {tree[k].path : k \in {j \in DOMAIN tree :
        /\ tree[j].type = "blob"
        /\ get_base_folder(tree[j].path) \in {Chars(BASE_FOLDERS[b]) : b \in DOMAIN BASE_FOLDERS}
        /\ resolve_snippet_root(get_base_folder(tree[j].path), tree[j].path) = unit}}

\* C17: every blob assigned to a unit is kept as the readme of the unit or as
\* one of its content files, also when the folder tree of the unit holds more
\* than one file named README.md.
C17_NoAssignedBlobLost ==
    \A unit \in DOMAIN grouped : AssignedTo(unit) \subseteq UnitPaths(unit)

-----------------------------------------------------------------------------
(* Properties of the records of a run *)

UnitIds == SetToSortedSeq(DOMAIN grouped)

\* C18: a run emits at most one record per unit, no two of its records, of
\* units, assets and pages together, have the same repo_path, and the
\* repo_path of the record of a unit is the unit id.
C18_OneRecordPerRepoPath ==
    /\ \A i, j \in DOMAIN rows : i # j => rows[i]["repo_path"].v # rows[j]["repo_path"].v
    /\ \A k \in DOMAIN rows :
          IF k <= Len(UnitIds) THEN rows[k]["repo_path"].v = UnitIds[k]
          ELSE rows[k]["repo_path"].v \notin DOMAIN grouped

\* C18 witness: a finished run over a unit of two files and an asset.
C18_Witness ==
    /\ pc = "done"
    /\ Len(rows) >= 2
    /\ \E unit \in DOMAIN grouped : Cardinality(UnitPaths(unit)) >= 2
    /\ \E i \in DOMAIN rows : rows[i]["category"].v = Chars(ASSET_FOLDER)

GuardedFields ==
    {"description", "client_side_type", "table", "field_list", "controller_as", "link",
     "client_callable"}

\* C19: finalize_row overwrites none of description, client_side_type, table,
\* field_list, controller_as, link and client_callable that is non-empty on
\* entry: what the readme metadata wrote is, trimmed, what the record holds.
C19_ReadmeValuesKept ==
    \A i \in DOMAIN rows :
        LET OnEntry(md, key) == IF key \in BOOL_KEYS THEN normalize_bool(md[key]) ELSE strip(md[key])
            Kept(md) ==
                \A key \in DOMAIN md \cap GuardedFields :
                    strip(OnEntry(md, key)) # <<>> => rows[i][key].v = strip(OnEntry(md, key))
        IN  ReadmeOf(i) # <<>> => Kept(parse_readme_metadata(ReadmeOf(i)))

\* C19 witness: a record whose client_callable and table were written from
\* the readme while its script include extends AbstractAjaxProcessor.
C19_Witness ==
    \E i \in DOMAIN rows :
        /\ rows[i]["script_type"].v = Chars("UX Script Include")
        /\ rows[i]["client_callable"].v = Chars("Glide AJAX enabled")
        /\ rows[i]["table"].v = Chars("incident")
        /\ Contains(rows[i]["script_include"].v, Chars("AbstractAjaxProcessor"))

-----------------------------------------------------------------------------
(* req: the HTTP request with retries and capped exponential backoff.
   arg is the loop variable attempt, rows the responses received so far,
   todo the delays slept so far, ret what the call yielded. *)

RetryBudget == 6
MaxBackoff == 20

\* the status codes a response may carry
StatusCodes == {200, 304, 403, 404, 429, 503, 600}

\* resp.status_code in (403, 429) or resp.status_code >= 500
Retryable(status) == status \in {403, 429} \/ status >= 500

\* Response.raise_for_status raises for the 4xx and 5xx codes
RaisesForStatus(status) == 400 <= status /\ status < 600

Backoff_uncapped(attempt) == 2 ^ attempt

\* min(2 ** attempt, 20)
Backoff(attempt) == IF 2 ^ attempt < MaxBackoff THEN 2 ^ attempt ELSE MaxBackoff

\* resp.raise_for_status(); return resp
Outcome(status) == IF RaisesForStatus(status) THEN "HTTPError" ELSE "Response"

InitReq ==
    /\ pc = "req_loop"
    /\ arg = 0
    /\ rows = <<>>
    /\ todo = <<>>
    /\ ret = "none"
    /\ tree = <<>>
    /\ raw = <<>>
    /\ grouped = <<>>
    /\ failed = {}

\* S.request answers with a response: a retryable one leads to the sleep,
\* any other one ends the call
ReqSend ==
    /\ pc = "req_loop"
    /\ arg < RetryBudget
    /\ \E status \in StatusCodes :
          /\ rows' = Append(rows, status)
          /\ IF Retryable(status)
             THEN pc' = "req_sleep" /\ UNCHANGED ret
             ELSE pc' = "req_ended" /\ ret' = Outcome(status)
    /\ UNCHANGED <<tree, raw, grouped, todo, failed, arg>>

\* S.request raises (no connection, or no answer within timeout=30)
ReqSendRaises ==
    /\ pc = "req_loop"
    /\ arg < RetryBudget
    /\ pc' = "req_ended"
    /\ ret' = "RequestException"
    /\ failed' = {arg}
    /\ UNCHANGED <<tree, raw, grouped, todo, rows, arg>>

\* time.sleep(min(2 ** attempt, 20)); continue
ReqSleep ==
    /\ pc = "req_sleep"
    /\ todo' = Append(todo, Backoff(arg))
    /\ arg' = arg + 1
    /\ pc' = IF arg + 1 < RetryBudget THEN "req_loop" ELSE "req_after_loop"
    /\ UNCHANGED <<tree, raw, grouped, rows, failed, ret>>

\* the two statements after the loop, on the last response
ReqAfterLoop ==
    /\ pc = "req_after_loop"
    /\ pc' = "req_ended"
    /\ ret' = Outcome(rows[Len(rows)])
    /\ UNCHANGED <<tree, raw, grouped, todo, rows, failed, arg>>

NextReq == ReqSend \/ ReqSendRaises \/ ReqSleep \/ ReqAfterLoop

\* the call runs on its own thread of control: an enabled step is taken
SpecReq == InitReq /\ [][NextReq]_vars /\ WF_vars(NextReq)

RequestsIssued == Len(rows) + Cardinality(failed)

\* C20: whatever the responses, req issues at most 6 requests and then
\* returns or raises; the delay after the k-th retryable response, k from 0,
\* is min(2^k, 20) seconds, so the delays never decrease and never exceed 20.
C20_BoundedRetries ==
    /\ [](/\ RequestsIssued <= 6
          /\ Len(todo) <= 6
          /\ \A k \in DOMAIN todo : todo[k] = <<1, 2, 4, 8, 16, 20>>[k]
          /\ \A k \in DOMAIN todo : Retryable(rows[k]))
    /\ <>(pc = "req_ended")

\* C20 witness: six retryable responses, all six delays slept, and the call
\* raised on the last response.
C20_Witness ==
    /\ pc = "req_ended"
    /\ ret = "HTTPError"
    /\ Len(rows) = 6
    /\ todo = <<1, 2, 4, 8, 16, 20>>

-----------------------------------------------------------------------------
(* Further properties of req *)

\* C21: req retries a response with status 403, 429 or >= 500; any other
\* error status fails on its attempt; a response is returned only when its
\* status is neither retryable nor an error; six retryable responses in a
\* row end in a raised failure, never in a returned response.
C21_TransientVersusFatal ==
    (pc = "req_ended" /\ ret # "RequestException") =>
        LET last == rows[Len(rows)]
        IN  /\ \A k \in 1..(Len(rows) - 1) : Retryable(rows[k])
            /\ (~Retryable(last) /\ last >= 400) => ret = "HTTPError"
            /\ ret = "Response" => (~Retryable(last) /\ last < 400)
            /\ (Len(rows) = 6 /\ Retryable(last)) => ret = "HTTPError"

\* C30: req sleeps only between attempts: the sleeps are fewer than the
\* requests issued, and after the sixth retryable response it fails without
\* sleeping again.
C30_SleepsOnlyBetweenAttempts ==
    pc = "req_ended" => Len(todo) < RequestsIssued

-----------------------------------------------------------------------------
(* The role classifier as a function of its arguments: readme_mentions,    *)
(* infer_js_role and classify_js_role are applied to one file of one unit. *)

RolePaths ==
    {"Server-Side Components/Business Rules/Plain",
     "Server-Side Components/Business Rules/Script Include helper",
     "Server-Side Components/Scheduled Jobs/Nightly",
     "Client-Side Components/UI Actions/Prio",
     "Client-Side Components/Client Scripts/Pair",
     "Client-Side Components/Catalog Client Script/Item",
     "Modern Development/Service Portal Widgets/Clock"}

RoleSubPaths == {"", "scriptinclude/"}

RoleFilenames == {"util.js", "ajax.js", "client_include.js", "portal.js", "server.js"}

RoleCodes ==
    {"alert(1);", "g_form.clearValue('a');", "function onLoad() {}", "var x = Class.create();",
     "gs.info(g_form);"}

RoleReadmes ==
    {<<>>,
     <<"Uses a script include">>,
     <<"ajax.js is the Script Include", "util.js: client script">>,
     <<"Client script for portal.js">>}

RoleLines(lines) == [i \in DOMAIN lines |-> Chars(lines[i])]

InitRole ==
    /\ Idle
    /\ pc = "role"
    /\ arg \in [snippet_path : RolePaths, sub_path : RoleSubPaths, filename : RoleFilenames,
                code : RoleCodes, readme_lines : RoleReadmes]
    /\ ret = [readme_mentions |-> Unset, infer_js_role |-> Unset, classify_js_role |-> Unset]

CallReadmeMentions ==
    /\ pc = "role"
    /\ ~ret.readme_mentions.done
    /\ ret' = [ret EXCEPT !.readme_mentions =
                 Result([token \in {"script include", "client script"} |->
                            [all |-> readme_mentions(Chars(arg.filename),
                                                     RoleLines(arg.readme_lines), Chars(token)),
                             cs |-> cs_readme_mentions(Chars(arg.filename),
                                                       RoleLines(arg.readme_lines), Chars(token))]])]
    /\ UNCHANGED <<tree, raw, pc, grouped, todo, rows, failed, arg>>

CallInferJsRole ==
    /\ pc = "role"
    /\ ~ret.infer_js_role.done
    /\ ret' = [ret EXCEPT !.infer_js_role =
                 Result([all |-> infer_js_role(Chars(arg.filename), Chars(arg.code),
                                               RoleLines(arg.readme_lines)),
                         cs |-> cs_infer_js_role(Chars(arg.filename), Chars(arg.code),
                                                 RoleLines(arg.readme_lines))])]
    /\ UNCHANGED <<tree, raw, pc, grouped, todo, rows, failed, arg>>

CallClassifyJsRole ==
    /\ pc = "role"
    /\ ~ret.classify_js_role.done
    /\ ret' = [ret EXCEPT !.classify_js_role =
                 Result(classify_js_role(Chars(arg.snippet_path),
                                         Chars(arg.sub_path \o arg.filename),
                                         Chars(arg.filename), Chars(arg.code),
                                         RoleLines(arg.readme_lines)))]
    /\ UNCHANGED <<tree, raw, pc, grouped, todo, rows, failed, arg>>

NextRole == CallReadmeMentions \/ CallInferJsRole \/ CallClassifyJsRole

SpecRole == InitRole /\ [][NextRole]_vars

\* the rules of infer_js_role as a table: whether each rule matches the file
\* under classification, and the role it gives
Rule(matches, role) == [matches |-> matches, role |-> role]

RoleCascade(mentions_include, mentions_client, include_hints, client_hints) ==
    LET name == lower(Chars(arg.filename))
        content == lower(Chars(arg.code))
        g_form == Contains(content, Chars("g_form"))
    IN  <<Rule(mentions_include, "script_include"),
          Rule(mentions_client, "client"),
          Rule(AnyHint(include_hints, name) /\ ~g_form, "script_include"),
          Rule(AnyHint(client_hints, name), "client"),
          Rule(\/ AnyHint(ClientTriggers, content)
               \/ g_form
               \/ Contains(content, Chars("g_scratchpad")), "client"),
          Rule(AnyHint(ServerIdioms, content) /\ ~g_form, "script_include")>>

FirstMatch(rules) ==
    LET hits == {i \in DOMAIN rules : rules[i].matches}
    IN  IF hits = {} THEN "unknown"
        ELSE rules[CHOOSE i \in hits : \A j \in hits : i <= j].role

Mentions(token) == readme_mentions(Chars(arg.filename), RoleLines(arg.readme_lines), Chars(token))
CsMentions(token) ==
    cs_readme_mentions(Chars(arg.filename), RoleLines(arg.readme_lines), Chars(token))

\* C22: infer_js_role gives the role of the first rule that matches, in the
\* order readme mention of script include, readme mention of client script,
\* include-filename hint, client-filename hint, client content signature,
\* server idiom, and unknown when none matches; no later rule overrides an
\* earlier match.
C22_FirstMatchCascade ==
    ret.infer_js_role.done =>
        /\ ret.infer_js_role.v.all =
              FirstMatch(RoleCascade(Mentions("script include"), Mentions("client script"),
                                     INCLUDE_NAME_HINTS, CLIENT_NAME_HINTS))
        /\ ret.infer_js_role.v.cs =
              FirstMatch(RoleCascade(CsMentions("script include") \/ CsMentions("server script"),
                                     CsMentions("client script"),
                                     CS_INCLUDE_NAME_HINTS, CS_CLIENT_NAME_HINTS))

\* a file whose name carries an include hint and a client hint at once, no
\* readme: the include hint comes first
C22_Witness ==
    /\ ret.infer_js_role.done
    /\ arg.filename = "client_include.js"
    /\ arg.code = "alert(1);"
    /\ arg.readme_lines = <<>>
    /\ ret.infer_js_role.v.all = "script_include"

\* a readme line that holds the phrase and the normalized name of the file
CoMentioned(token) ==
    \E i \in DOMAIN arg.readme_lines :
        /\ Contains(lower(Chars(arg.readme_lines[i])), Chars(token))
        /\ Contains(OnlyAlnum(lower(Chars(arg.readme_lines[i]))),
                    OnlyAlnum(lower(splitext_root(Chars(arg.filename)))))

\* C23: the readme rule fires for a file only when one readme line holds both
\* the role phrase and the normalized token of that file's name; a line with
\* the phrase that does not mention the file never fires it.
C23_CoMentionNeedsTheFile ==
    ret.readme_mentions.done =>
        \A token \in {"script include", "client script"} :
            \A scraper \in {"all", "cs"} :
                ret.readme_mentions.v[token][scraper] => CoMentioned(token)

\* category/subcategory: the first two segments of the unit's path
CategoryPath(path) == SubSeq(split(Chars(path), "/"), 1, 2)

\* C24: the role of a file does not depend on the unit's folder name or on
\* the file's sub-path: two units of one category/subcategory with the same
\* filename, content and readme lines get the same role.
C24_RoleIgnoresFolderName ==
    ret.classify_js_role.done =>
        \A other \in RolePaths, sub \in RoleSubPaths :
            CategoryPath(other) = CategoryPath(arg.snippet_path) =>
                classify_js_role(Chars(other), Chars(sub \o arg.filename), Chars(arg.filename),
                                 Chars(arg.code), RoleLines(arg.readme_lines))
                    = ret.classify_js_role.v

\* C25: a file whose content references g_form and that the readme rule does
\* not decide is client, never script_include, whatever its name hints at.
C25_GFormIsClient ==
    (ret.infer_js_role.done /\ Contains(lower(Chars(arg.code)), Chars("g_form"))) =>
        /\ (~Mentions("script include") /\ ~Mentions("client script"))
              => ret.infer_js_role.v.all = "client"
        /\ (~CsMentions("script include") /\ ~CsMentions("server script")
            /\ ~CsMentions("client script"))
              => ret.infer_js_role.v.cs = "client"

\* an include-hinted name and a server idiom next to g_form
C25_Witness ==
    /\ ret.infer_js_role.done
    /\ arg.filename = "ajax.js"
    /\ arg.code = "gs.info(g_form);"
    /\ arg.readme_lines = <<>>
    /\ ret.infer_js_role.v = [all |-> "client", cs |-> "client"]

\* C29: classify_js_role returns client, script_include, server or
\* portal_server only: a file that matches no rule is server, never unknown.
C29_NeverUnknown ==
    ret.classify_js_role.done =>
        ret.classify_js_role.v \in {"client", "script_include", "server", "portal_server"}

\* a file infer_js_role cannot place, in a category without a rule of its own
C29_Witness ==
    /\ ret.classify_js_role.done
    /\ ret.infer_js_role.done
    /\ ret.infer_js_role.v.all = "unknown"
    /\ arg.snippet_path = "Server-Side Components/Business Rules/Plain"
    /\ ret.classify_js_role.v = "server"

-----------------------------------------------------------------------------
(* The file loop of process_snippet, one file at a time: the text files of *)
(* one unit are routed into its row in sorted order, then the code blocks  *)
(* of the readme are added.                                                *)

RouteUnit == "Client-Side Components/UI Actions/Prio"

\* the files the unit may hold, as sorted() orders them
RouteFileNames == <<"app.xml", "client.js", "main.js", "server.js", "workspace.js">>

RouteContents == {" \n", "g_form.save();", " gs.info(1);\n"}

RouteCodeBlocks == {<<>>, <<"x();">>, <<"x();", "y();">>}

InitRoute ==
    /\ Idle
    /\ pc = "route_files"
    /\ ret = 1
    /\ arg = blank_row(Chars("Prio"),
                       ScriptTypeOf(Chars("Client-Side Components"), Chars("UI Actions")),
                       Chars("Client-Side Components"), Chars("UI Actions"), Chars(RouteUnit))

\* one iteration of the loop, for a file of the unit
RouteNextFile ==
    /\ pc = "route_files"
    /\ ret <= Len(RouteFileNames)
    /\ \E content \in RouteContents :
          /\ arg' = RouteFile(arg, Chars(RouteUnit),
                              Chars(RouteUnit \o "/" \o RouteFileNames[ret]), Chars(content), <<>>)
          /\ rows' = Append(rows, [filename |-> RouteFileNames[ret], content |-> content])
    /\ ret' = ret + 1
    /\ UNCHANGED <<tree, raw, pc, grouped, todo, failed>>

\* the unit does not hold this file
RouteNoSuchFile ==
    /\ pc = "route_files"
    /\ ret <= Len(RouteFileNames)
    /\ ret' = ret + 1
    /\ UNCHANGED <<tree, raw, pc, grouped, todo, rows, failed, arg>>

\* the statement after the loop
RouteCodeBlocksOfReadme ==
    /\ pc = "route_files"
    /\ ret > Len(RouteFileNames)
    /\ \E code_blocks \in RouteCodeBlocks :
          /\ arg' = AddCodeBlocks(arg, RoleLines(code_blocks))
          /\ todo' = code_blocks
    /\ pc' = "route_done"
    /\ UNCHANGED <<tree, raw, grouped, rows, failed, ret>>

NextRoute == RouteNextFile \/ RouteNoSuchFile \/ RouteCodeBlocksOfReadme

SpecRoute == InitRoute /\ [][NextRoute]_vars

\* the non-blank contents routed so far, stripped, of the files whose role
\* or extension is among the given ones
RoutedAs(kinds) ==
    LET Kind(f) ==
            IF ExtOf(Chars(f.filename)) = Chars(".xml") THEN "xml"
            ELSE classify_js_role(Chars(RouteUnit), Chars(f.filename), Chars(f.filename),
                                  Chars(f.content), <<>>)
        hits == SelectSeq(rows, LAMBDA f : Kind(f) \in kinds /\ strip(Chars(f.content)) # <<>>)
    IN  [i \in DOMAIN hits |-> strip(Chars(hits[i].content))]

Rest(xs) == SubSeq(xs, 2, Len(xs))

\* C26: client_script receives the first non-blank client file only and the
\* later ones go to client_script_v2; code receives the first non-blank
\* server or .xml content only and the later ones go to code2; until the row
\* is finalized client_script and code hold at most one entry each.
C26_PrimarySlotsHoldOne ==
    /\ arg.st = "ok"
    /\ arg.d["client_script"].v = Take(RoutedAs({"client"}), 1)
    /\ arg.d["client_script_v2"].v = Rest(RoutedAs({"client"}))
    /\ pc = "route_files" =>
          /\ arg.d["code"].v = Take(RoutedAs({"server", "xml"}), 1)
          /\ arg.d["code2"].v = Rest(RoutedAs({"server", "xml"}))
    /\ Len(arg.d["client_script"].v) <= 1
    /\ Len(arg.d["code"].v) <= 1

\* a blank client file first, then two client files and two server contents
C26_Witness ==
    /\ pc = "route_done"
    /\ Len(rows) = 5
    /\ rows[2].content = " \n"
    /\ arg.d["client_script"].v = <<Chars("g_form.save();")>>
    /\ Len(arg.d["client_script_v2"].v) = 1
    /\ Len(arg.d["code"].v) = 1
    /\ Len(arg.d["code2"].v) = 1

-----------------------------------------------------------------------------
(* extract_link_function, statement by statement: the search for the head  *)
(* of the function, then one step per iteration of the while loop.         *)
(* todo holds the locals of the call: start, idx, depth and the match.     *)

MaxBody == 4

LinkHeads == {"function link(s) {", "var a; function link (scope, el){", "function other() {"}

LinkTokens == {"{", "}", "a;"}

\* the texts of at most n tokens
RECURSIVE LinkBodies(_)
LinkBodies(n) ==
    IF n = 0 THEN {""}
    ELSE LinkBodies(n - 1) \cup {body \o token : body \in LinkBodies(n - 1), token \in LinkTokens}

InitLink ==
    /\ Idle
    /\ pc = "link_search"
    /\ arg \in {head \o body : head \in LinkHeads, body \in LinkBodies(MaxBody)}
    /\ ret = <<>>

\* depth after the character at idx
LinkDepth_ignores_open(char, depth) == IF char = "}" THEN depth - 1 ELSE depth

LinkDepth(char, depth) ==
    IF char = "{" THEN depth + 1 ELSE IF char = "}" THEN depth - 1 ELSE depth

LinkSearch ==
    /\ pc = "link_search"
    /\ \E m \in {re_search(LinkHeadPattern, Chars(arg), FALSE)} :
          IF ~m.found
          THEN pc' = "link_done" /\ ret' = <<>> /\ UNCHANGED todo
          ELSE /\ pc' = "link_scan"
               /\ todo' = [start |-> m.e, idx |-> m.e, depth |-> 1,
                           group1 |-> group(m, Chars(arg), 1)]
               /\ UNCHANGED ret
    /\ UNCHANGED <<tree, raw, grouped, rows, failed, arg>>

LinkScanStep ==
    /\ pc = "link_scan"
    /\ todo.idx <= Len(arg)
    /\ \E depth \in {LinkDepth(Chars(arg)[todo.idx], todo.depth)} :
          IF Chars(arg)[todo.idx] = "}" /\ depth = 0
          THEN /\ ret' = Chars("function link(") \o todo.group1 \o Chars("){\n")
                         \o SubSeq(Chars(arg), todo.start, todo.idx - 1) \o Chars("\n}")
               /\ pc' = "link_done"
               /\ UNCHANGED todo
          ELSE /\ todo' = [todo EXCEPT !.idx = @ + 1, !.depth = depth]
               /\ UNCHANGED <<pc, ret>>
    /\ UNCHANGED <<tree, raw, grouped, rows, failed, arg>>

LinkScanEnds ==
    /\ pc = "link_scan"
    /\ todo.idx > Len(arg)
    /\ pc' = "link_done"
    /\ ret' = <<>>
    /\ UNCHANGED <<tree, raw, grouped, todo, rows, failed, arg>>

NextLink == LinkSearch \/ LinkScanStep \/ LinkScanEnds

\* the while loop runs on once entered
SpecLink == InitLink /\ [][NextLink]_vars /\ WF_vars(LinkScanStep \/ LinkScanEnds)

\* the braces of the text after the head: the closing braces that have one
\* more closing than opening brace between the head and themselves
LinkClosers(text, start) ==
    {i \in start..Len(text) :
        /\ text[i] = "}"
        /\ Cardinality({j \in start..i : text[j] = "}"})
              = Cardinality({j \in start..i : text[j] = "{"}) + 1}

LinkExpected(text) ==
    LET Rebuilt(m, closers) ==
            IF closers = {} THEN <<>>
            ELSE Chars("function link(") \o group(m, text, 1) \o Chars("){\n")
                 \o SubSeq(text, m.e, (CHOOSE i \in closers : \A j \in closers : i <= j) - 1)
                 \o Chars("\n}")
        From(m) == IF ~m.found THEN <<>> ELSE Rebuilt(m, LinkClosers(text, m.e))
    IN  From(re_search(LinkHeadPattern, text, FALSE))

\* C27: extract_link_function returns the function rebuilt around the text
\* up to the first brace that closes the body when the braces balance, the
\* empty string when they do not, and its scan ends on every input.
C27_LinkBodyIsBalancedPrefix ==
    /\ [](pc = "link_done" =>
            /\ ret = LinkExpected(Chars(arg))
            /\ ret = extract_link_function(Chars(arg)))
    /\ (pc = "link_scan") ~> (pc = "link_done")

\* a nested block inside the body, text left over after the closing brace
C27_Witness ==
    /\ pc = "link_done"
    /\ arg = "function link(s) {{}}a;"
    /\ ret = Chars("function link(s){\n{}\n}")

\* the body is never closed
C27_WitnessUnbalanced ==
    /\ pc = "link_done"
    /\ arg = "function link(s) {{a;}"
    /\ ret = <<>>

-----------------------------------------------------------------------------
(* scrape_inbound_actions: one row per folder of the inbound actions that  *)
(* has a README; the code is the .js file of the folder, or else the first *)
(* code block of the readme.                                               *)

IA_FOLDER == Chars("Server-Side Components/Inbound Actions")

\* one iteration of the loop of group_inbound_actions_files
IaGroupNode(g, node) ==
    LET Into(entry, filename) ==
            IF lower(filename) = Chars("readme.md") THEN [entry EXCEPT !.README = node.path]
            ELSE [entry EXCEPT !.CODE = node.path]
        Filed(folder, filename) ==
            IF /\ lower(filename) # Chars("readme.md")
               /\ ~EndsWith(lower(filename), Chars(".js"))
            THEN g
            ELSE [k \in DOMAIN g \cup {folder} |->
                    IF k = folder
                    THEN Into(IF k \in DOMAIN g THEN g[k] ELSE [README |-> <<>>, CODE |-> <<>>],
                              filename)
                    ELSE g[k]]
        Parted(parts) ==
            IF Len(parts) < 2 THEN g
            ELSE Filed(parts[1], join(Chars("/"), Tail(parts)))
    IN  IF node.type # "blob" \/ ~StartsWith(node.path, IA_FOLDER \o Chars("/")) THEN g
        ELSE Parted(split(SubSeq(node.path, Len(IA_FOLDER) + 2, Len(node.path)), "/"))

RECURSIVE IaGroupFrom(_, _)
IaGroupFrom(g, nodes) ==
    IF nodes = <<>> THEN g ELSE IaGroupFrom(IaGroupNode(g, Head(nodes)), Tail(nodes))

group_inbound_actions_files(nodes) == IaGroupFrom(<<>>, nodes)

\* the paths build_row requests, in order
IaFetches(files) == SelectSeq(<<files.README, files.CODE>>, LAMBDA path : path # <<>>)

inbound_build_row(name, files, contents) ==
    LET Fetched(path) == IF path # <<>> THEN contents[path] ELSE <<>>
        Built(readme) ==
            [name |-> name,
             description |-> readme,
             code |-> IF files.CODE # <<>> THEN contents[files.CODE]
                      ELSE extract_code_from_readme(readme),
             repo_path |-> IA_FOLDER \o Chars("/") \o name]
    IN  IF \E i \in DOMAIN IaFetches(files) : contents[IaFetches(files)[i]] = HTTPError
        THEN Raised(<<>>, "HTTPError")
        ELSE Row(Built(Fetched(files.README)))

InboundRepositories ==
    {<<Blob("Server-Side Components/Inbound Actions/Reply/README.md", Chars("Replies\n")),
       Blob("Server-Side Components/Inbound Actions/Reply/first.js", Chars("gs.info(1);")),
       Blob("Server-Side Components/Inbound Actions/Reply/second.js", Chars("gs.info(2);")),
       Blob("Server-Side Components/Inbound Actions/Reply/notes.txt", Chars("n")),
       Dir("Server-Side Components/Inbound Actions/Reply")>>,
     <<Blob("Server-Side Components/Inbound Actions/Doc/README.md",
            Fence \o Chars("js\nvar a = 1;\n") \o Fence),
       Blob("Server-Side Components/Inbound Actions/Bare/x.js", Chars("gs.info(4);")),
       Blob("Server-Side Components/Inbound Actions/top.js", Chars("gs.info(5);")),
       Blob("Server-Side Components/Background Scripts/Fix/one.js", Chars("gs.info(6);"))>>}

InitInbound ==
    /\ \E repo \in InboundRepositories : \E listing \in Listings(repo) :
          /\ tree = TreeNodes(listing)
          /\ raw = RawContents(listing)
    /\ pc = "ia_start"
    /\ grouped = <<>>
    /\ todo = <<>>
    /\ rows = <<>>
    /\ failed = {}
    /\ arg = <<>>
    /\ ret = "none"

\* get_branch_sha, list_tree_recursive and group_inbound_actions_files
IaListTree ==
    /\ pc = "ia_start"
    /\ grouped' = group_inbound_actions_files(tree)
    /\ todo' = SetToSortedSeq(DOMAIN grouped')
    /\ pc' = "ia_folders"
    /\ UNCHANGED <<tree, raw, rows, failed, arg, ret>>

IaListTreeFails ==
    /\ pc = "ia_start"
    /\ pc' = "aborted"
    /\ ret' = "HTTPError"
    /\ UNCHANGED <<tree, raw, grouped, todo, rows, failed, arg>>

\* an iteration of the loop of scrape for a folder with a README; at most one
\* of the fetches of build_row fails
IaBuildRow ==
    /\ pc = "ia_folders"
    /\ todo # <<>>
    /\ grouped[Head(todo)].README # <<>>
    /\ \E bad \in {NoPath} \cup Range(IaFetches(grouped[Head(todo)])) :
          \E row \in {inbound_build_row(Head(todo), grouped[Head(todo)], Failing(raw, bad))} :
              IF row.st = "raised"
              THEN /\ pc' = "aborted"
                   /\ ret' = row.err
                   /\ failed' = {bad}
                   /\ UNCHANGED <<todo, rows>>
              ELSE /\ rows' = Append(rows, row.d)
                   /\ todo' = Tail(todo)
                   /\ UNCHANGED <<pc, ret, failed>>
    /\ UNCHANGED <<tree, raw, grouped, arg>>

\* an iteration of the loop of scrape for a folder without a README
IaSkipFolder ==
    /\ pc = "ia_folders"
    /\ todo # <<>>
    /\ grouped[Head(todo)].README = <<>>
    /\ todo' = Tail(todo)
    /\ UNCHANGED <<tree, raw, pc, grouped, rows, failed, arg, ret>>

\* return pd.DataFrame(rows)
IaFinish ==
    /\ pc = "ia_folders"
    /\ todo = <<>>
    /\ pc' = "ia_done"
    /\ UNCHANGED <<tree, raw, grouped, todo, rows, failed, arg, ret>>

NextInbound == IaListTree \/ IaListTreeFails \/ IaBuildRow \/ IaSkipFolder \/ IaFinish

SpecInbound == InitInbound /\ [][NextInbound]_vars

\* the .js files of a folder of the inbound actions, in the order of the tree
IaJsFilesOf(folder) ==
    LET under == SelectSeq(tree, LAMBDA node :
                    /\ node.type = "blob"
                    /\ StartsWith(node.path, IA_FOLDER \o Chars("/") \o folder \o Chars("/"))
                    /\ EndsWith(lower(node.path), Chars(".js")))
    IN  [i \in DOMAIN under |-> under[i].path]

\* C28: when a folder of the inbound actions holds several .js files its CODE
\* slot holds the first one met in the tree, and the row's code is that
\* file's content: later .js files do not replace it.
C28_CodeIsFirstJs ==
    /\ pc \in {"ia_folders", "ia_done"} =>
          \A folder \in DOMAIN grouped :
              IaJsFilesOf(folder) # <<>> => grouped[folder].CODE = IaJsFilesOf(folder)[1]
    /\ \A i \in DOMAIN rows :
          IaJsFilesOf(rows[i].name) # <<>> => rows[i].code = raw[IaJsFilesOf(rows[i].name)[1]]

====
